---------------------------- MODULE Spec2Model ----------------------------
(***************************************************************************)
(* A model of src/src/grep.c: the buffer manager (reset, fillbuf), the     *)
(* output formatter (nlscan, prline, prpending, prtext), the match driver  *)
(* (grepbuf), the file driver (grep, grepfile), the directory walker       *)
(* (grepdir) and the exit status composition of main.                      *)
(*                                                                         *)
(* Pointers into the buffer are integers: the offset of the pointed byte   *)
(* from ubuffer, the base of the allocated block.  The null pointer is     *)
(* Null.  The memory of the block is the function mem.                     *)
(***************************************************************************)
EXTENDS Integers, Sequences, FiniteSets, TLC

VARIABLES
    opt,          \* the option globals as main's option loop leaves them
    argv,         \* the file operands of the command line, in order
    fs,           \* the file system: inode number -> node
    g,            \* the mutable globals of grep.c, stdout/stderr, grep()'s frame
    pc,           \* where the process is: "main", "grep", "loop", "dir", "exit"
    optind,       \* main's index of the operand being processed
    status,       \* main's status
    stack,        \* the active grepdir frames, innermost last
    cur,          \* the operand grepfile is working on: [file, ino]
    exit_status,  \* the status the process exited with (Null while running)
    hist          \* history: what happened to each operand (for the properties)

vars == <<opt, argv, fs, g, pc, optind, status, stack, cur, exit_status, hist>>

-----------------------------------------------------------------------------
(* Bounds of the model *)

\* pagesize as getpagesize() returns it (scaled down)
PageSize == 2
\* the build's BUFSALLOC (scaled down from the default 8192)
BUFSALLOC == 2
\* longest content of a scanned file
MaxLen == 5
\* most file operands on a command line
MaxArgs == 2

(* Program constants *)
PREFERRED_SAVE_FACTOR == 5
\* TYPE_MAXIMUM (off_t), the default max_count (narrowed to TLC's integers;
\* no count of the model comes near it)
OFF_T_MAX == 2147483647

Null == -1
\* (size_t) -1, execute's "no match"
NoMatch == -1

\* '\n', the end-of-line byte unless -z is given
Eol == "n"
\* '\0', the end-of-line byte under -z
Nul == "z"
\* '\200', the byte that marks a binary file when the end-of-line byte is NUL
Hi == "h"
\* a byte of allocated memory that was never written
Junk == "?"

\* the end-of-line byte of the run
eolbyte == opt.eolbyte

\* The calls of grepbuf, prtext and execute made for the current input are
\* kept in the field log, for the properties only: the function, outleft at
\* the call and the bytes of the region it was called on
Logged(s, f, p, lim) ==
    [s EXCEPT !.log = Append(@, [f |-> f, outleft |-> s.outleft,
                                 arg |-> [i \in 1..(lim - p) |-> s.mem[p + i - 1]]])]

Min(S) == CHOOSE x \in S : \A y \in S : x <= y
MAX(A, B) == IF A > B THEN A ELSE B

ALIGN_TO(val, alignment) ==
    IF (val % alignment) = 0 THEN val ELSE val + (alignment - (val % alignment))

\* the bytes [p, lim) of memory as a sequence
Bytes(mem, p, lim) == [i \in 1..(lim - p) |-> mem[p + i - 1]]

\* memchr (p, c, n): the first position in [p, p+n) holding c, or Null
memchr(mem, p, c, n) ==
    LET hits == {i \in p..(p + n - 1) : mem[i] = c}
    IN  IF hits = {} THEN Null ELSE Min(hits)

-----------------------------------------------------------------------------
(* The matcher (search.c, an external collaborator behind execute).  As the  *)
(* matchers of GNU grep do, execute reports the earliest line of the region  *)
(* that contains a match: the offset of the line's first byte and the line's *)
(* length, its end-of-line byte included when the region holds it.  The      *)
(* pattern of the model matches every line that contains the byte "a".       *)
(* The interface itself asks less of a matcher: execute returns the offset   *)
(* of the earliest match and its length.  The matcher "span" is one that     *)
(* reports the match itself.                                                 *)

LineSelects(line) ==
    IF opt.keys = "^$" THEN line = <<>> \/ line = <<eolbyte>>
    ELSE IF opt.keys = "" THEN TRUE
    ELSE \E i \in 1..Len(line) : line[i] = "a"

\* a matcher that reports the earliest line of the region that holds a match
execute_line(mem, p, size) ==
    LET lim == p + size
        EndOf(i) == LET nl == memchr(mem, i, eolbyte, lim - i)
                    IN  IF nl = Null THEN lim ELSE nl + 1
        \* the empty line at the end of the region
        last == size = 0 \/ mem[lim - 1] = eolbyte
        Earliest(hits) ==
            IF hits = {}
            THEN IF opt.keys \in {"^$", ""} /\ last THEN [off |-> size, size |-> 0]
                 ELSE [off |-> NoMatch, size |-> 0]
            ELSE [off |-> Min(hits) - p, size |-> EndOf(Min(hits)) - Min(hits)]
    IN  Earliest({i \in {j \in p..(lim - 1) : j = p \/ mem[j - 1] = eolbyte} :
                    LineSelects(Bytes(mem, i, EndOf(i)))})

\* a matcher that reports the earliest match itself, its offset and its
\* length: the first byte "a" of the region, or for the empty pattern the
\* empty match at the start of the region
execute_span(mem, p, size) ==
    LET Earliest(hits) ==
            IF hits = {} THEN [off |-> NoMatch, size |-> 0]
            ELSE [off |-> Min(hits) - p, size |-> 1]
    IN  IF opt.keys = "" THEN [off |-> 0, size |-> 0]
        ELSE Earliest({i \in p..(p + size - 1) : mem[i] = "a"})

\* (*execute) (p, size, &match_size): the matcher main installed
execute(mem, p, size) ==
    IF opt.matcher = "span" THEN execute_span(mem, p, size)
    ELSE execute_line(mem, p, size)

-----------------------------------------------------------------------------
(* Output formatter *)

RECURSIVE NlCount(_, _, _)
\* the loop of nlscan: the number of iterations from beg to lim, and whether
\* it ran off the region (memchr found no end-of-line byte before lim)
NlCount(mem, beg, lim) ==
    IF beg = lim THEN [n |-> 0, ub |-> FALSE]
    ELSE IF beg > lim THEN [n |-> 0, ub |-> TRUE]
    ELSE LET nl == memchr(mem, beg, eolbyte, lim - beg)
         IN  IF nl = Null THEN [n |-> 1, ub |-> TRUE]
             ELSE LET r == NlCount(mem, nl + 1, lim)
                  IN  [n |-> r.n + 1, ub |-> r.ub]

\* nlscan counting from the beginning of the buffer instead of from lastnl
nlscan_from_bufbeg(s, lim) ==
    LET r == NlCount(s.mem, s.bufbeg, lim)
    IN  [s EXCEPT !.totalnl = @ + r.n, !.lastnl = lim, !.ub = @ \/ r.ub]

nlscan(s, lim) ==
    LET r == NlCount(s.mem, s.lastnl, lim)
    IN  [s EXCEPT !.totalnl = @ + r.n, !.lastnl = lim, !.ub = @ \/ r.ub]

\* print_offset_sep (pos, sep): the decimal digits of pos, the last one
\* written first; the separator is kept apart, in the record of the line
RECURSIVE print_offset_sep(_)
print_offset_sep(pos) ==
    LET digit == <<"0", "1", "2", "3", "4", "5", "6", "7", "8", "9">>[(pos % 10) + 1]
    IN  IF pos \div 10 # 0 THEN Append(print_offset_sep(pos \div 10), digit)
        ELSE <<digit>>

\* one line of standard output, with the prefixes prline prints before it
\* (<<>> for a prefix that is not printed)
LineRec(s, sep, num, pos, beg, lim) ==
    [k    |-> "line",
     sep  |-> sep,
     file |-> IF s.out_file # 0 THEN s.filename ELSE <<>>,
     num  |-> IF opt.out_line THEN print_offset_sep(num) ELSE <<>>,
     off  |-> IF opt.out_byte THEN print_offset_sep(pos) ELSE <<>>,
     text |-> Bytes(s.mem, beg, lim)]

\* prline printing the offset in the buffer, totalcc left out
prline_in_buffer(s, beg, lim, sep) ==
    LET Out(s1) == [s1 EXCEPT !.stdout = Append(@, LineRec(s1, sep, s1.totalnl,
                                                      beg - s.bufbeg, beg, lim)),
                              !.lastout = lim]
    IN  Out(IF opt.out_line
            THEN [nlscan(s, beg) EXCEPT !.totalnl = @ + 1, !.lastnl = lim]
            ELSE s)

prline(s, beg, lim, sep) ==
    LET Out(s1) == [s1 EXCEPT !.stdout = Append(@, LineRec(s1, sep, s1.totalnl,
                                                      s.totalcc + (beg - s.bufbeg),
                                                      beg, lim)),
                              !.lastout = lim]
    IN  Out(IF opt.out_line
            THEN [nlscan(s, beg) EXCEPT !.totalnl = @ + 1, !.lastnl = lim]
            ELSE s)

\* prpending printing the pending lines as context whether they are selected
\* or not
RECURSIVE prpending_loop_all(_, _)
prpending_loop_all(s, lim) ==
    LET nl == memchr(s.mem, s.lastout, eolbyte, lim - s.lastout)
    IN  IF ~(s.pending > 0 /\ s.lastout < lim) THEN s
        ELSE IF nl = Null THEN [s EXCEPT !.pending = @ - 1, !.ub = TRUE]
        ELSE prpending_loop_all(prline([s EXCEPT !.pending = @ - 1],
                                       s.lastout, nl + 1, "-"), lim)

RECURSIVE prpending_loop(_, _)
prpending_loop(s, lim) ==
    LET nl == memchr(s.mem, s.lastout, eolbyte, lim - s.lastout)
    IN  IF ~(s.pending > 0 /\ s.lastout < lim) THEN s
        ELSE IF nl = Null THEN [s EXCEPT !.pending = @ - 1, !.ub = TRUE]
        ELSE IF s.outleft # 0
                \/ (execute(s.mem, s.lastout, nl - s.lastout).off = NoMatch)
                   = (~opt.out_invert)
        THEN prpending_loop(prline([(IF s.outleft # 0 THEN s
                                     ELSE Logged(s, "execute", s.lastout, nl))
                                      EXCEPT !.pending = @ - 1],
                                   s.lastout, nl + 1, "-"), lim)
        ELSE prpending_loop([Logged(s, "execute", s.lastout, nl)
                               EXCEPT !.pending = 0], lim)

\* prpending dropping the lines of trailing context instead of printing them
prpending_none(s, lim) == [s EXCEPT !.pending = 0]

prpending(s, lim) ==
    prpending_loop(IF s.lastout = Null THEN [s EXCEPT !.lastout = s.bufbeg] ELSE s,
                   lim)

\* do --p; while (p > bp && p[-1] != eol);
RECURSIVE BackOneLine(_, _, _)
BackOneLine(mem, p, bp) ==
    IF p - 1 > bp /\ mem[p - 2] # eolbyte THEN BackOneLine(mem, p - 1, bp) ELSE p - 1

\* prtext's walk over the leading context: i lines back from p, not past bp
RECURSIVE LeadingContext(_, _, _, _)
LeadingContext(mem, p, bp, i) ==
    IF i = 0 THEN p
    ELSE LeadingContext(mem, IF p > bp THEN BackOneLine(mem, p, bp) ELSE p, bp, i - 1)

\* while (p < beg) { nl = memchr (p, eol, beg - p); nl++; prline (p, nl, '-'); p = nl; }
RECURSIVE prtext_context(_, _, _)
prtext_context(s, p, beg) ==
    LET nl == memchr(s.mem, p, eolbyte, beg - p)
    IN  IF ~(p < beg) THEN [s EXCEPT !.p = p]
        ELSE IF nl = Null THEN [s EXCEPT !.ub = TRUE, !.p = beg]
        ELSE prtext_context(prline(s, p, nl + 1, "-"), nl + 1, beg)

\* the loop of prtext without the test n < outleft
RECURSIVE prtext_count_all(_, _, _, _)
prtext_count_all(s, p, lim, n) ==
    LET Line(nl) == IF nl = Null THEN [s EXCEPT !.ub = TRUE, !.p = lim, !.n = n]
                    ELSE prtext_count_all(IF s.out_quiet = 0
                                          THEN prline(s, p, nl + 1, ":") ELSE s,
                                          nl + 1, lim, n + 1)
    IN  IF ~(p < lim) THEN [s EXCEPT !.p = p, !.n = n]
        ELSE Line(memchr(s.mem, p, eolbyte, lim - p))

\* for (n = 0; p < lim && n < outleft; n++) { ... prline (p, nl, ':') ... }
RECURSIVE prtext_count(_, _, _, _)
prtext_count(s, p, lim, n) ==
    LET nl == memchr(s.mem, p, eolbyte, lim - p)
    IN  IF ~(p < lim /\ n < s.outleft) THEN [s EXCEPT !.p = p, !.n = n]
        ELSE IF nl = Null THEN [s EXCEPT !.ub = TRUE, !.p = lim, !.n = n]
        ELSE prtext_count(IF s.out_quiet = 0 THEN prline(s, p, nl + 1, ":") ELSE s,
                          nl + 1, lim, n + 1)

\* the separator, were it ended by the end-of-line byte of the run
SepRec_eolbyte == [k |-> "sep", eol |-> eolbyte]

\* puts ("--"): the separator line, and the newline puts writes after it
SepRec == [k |-> "sep", eol |-> Eol]

\* if (!out_quiet && pending > 0) prpending (beg);
prtext_pending(s, beg) ==
    IF s.out_quiet = 0 /\ s.pending > 0 THEN prpending(s, beg) ELSE s

\* prtext taking its leading context from the start of the buffer, whatever
\* was written last
prtext_lead_from_bufbeg(s, beg, p) ==
    prtext_context(IF (opt.out_before # 0 \/ opt.out_after # 0)
                      /\ s.used /\ p # s.lastout
                   THEN [s EXCEPT !.stdout = Append(@, SepRec)]
                   ELSE s,
                   LeadingContext(s.mem, beg, s.bufbeg, opt.out_before), beg)

\* if (!out_quiet) { ... }: the separator and the lines of leading context,
\* from the position p on; the position reached is left in the field p
prtext_lead(s, beg, p) ==
    IF s.out_quiet = 0
    THEN prtext_context(IF (opt.out_before # 0 \/ opt.out_after # 0)
                           /\ s.used /\ p # s.lastout
                        THEN [s EXCEPT !.stdout = Append(@, SepRec)]
                        ELSE s,
                        p, beg)
    ELSE [s EXCEPT !.p = beg]

\* if (nlinesp) { ... } else if (!out_quiet) prline (beg, lim, ':');
prtext_lines(s, beg, lim, count) ==
    LET Counted(c) == [c EXCEPT !.after_last_match = c.bufoffset - (c.buflim - c.p)]
    IN  IF count THEN Counted(prtext_count(s, s.p, lim, 0))
        ELSE IF s.out_quiet = 0 THEN prline(s, beg, lim, ":")
        ELSE s

\* prtext (beg, lim, nlinesp); count says whether nlinesp is non-null, and the
\* count stored through it is left in the field n
prtext(s, beg, lim, count) ==
    LET \* pending = out_quiet ? 0 : out_after; used = 1;
        Finish(s4) == [s4 EXCEPT !.pending = IF s4.out_quiet # 0 THEN 0
                                             ELSE opt.out_after,
                                 !.used = TRUE]
        Lead(s1) == prtext_lead(s1, beg,
                                LeadingContext(s1.mem, beg,
                                               IF s1.lastout # Null THEN s1.lastout
                                               ELSE s1.bufbeg,
                                               opt.out_before))
    IN  Finish(prtext_lines(Lead(prtext_pending(Logged(s, "prtext", beg, lim), beg)),
                            beg, lim, count))

-----------------------------------------------------------------------------
(* Match driver *)

\* the loop of grepbuf printing the line a match at lim begins, and leaving
\* the loop after it
RECURSIVE grepbuf_loop_at_lim(_, _, _, _)
grepbuf_loop_at_lim(s, p, lim, nlines) ==
    LET Remainder(t) == [t EXCEPT !.outleft = @ - t.n, !.n = nlines + t.n]
        Rest == IF opt.out_invert /\ p < lim THEN Remainder(prtext(s, p, lim, TRUE))
                ELSE [s EXCEPT !.n = nlines]
        Selected(t, endp) ==
            IF t.outleft = 0 \/ t.done_on_match # 0 \/ endp = lim
            THEN IF opt.exit_on_match
                 THEN [t EXCEPT !.exited = TRUE, !.n = nlines + 1]
                 ELSE [t EXCEPT !.after_last_match = t.bufoffset - (t.buflim - endp),
                                !.n = nlines + 1]
            ELSE grepbuf_loop_at_lim(Logged(t, "execute", endp, lim), endp, lim,
                                     nlines + 1)
        Between(t0, endp) ==
            IF t0.outleft - t0.n = 0
            THEN [t0 EXCEPT !.outleft = 0, !.n = nlines + t0.n]
            ELSE grepbuf_loop_at_lim(Logged([t0 EXCEPT !.outleft = @ - t0.n], "execute",
                                            endp, lim),
                                     endp, lim, nlines + t0.n)
        Found(b, endp) ==
            IF ~opt.out_invert
            THEN Selected([prtext(s, b, endp, FALSE) EXCEPT !.outleft = @ - 1], endp)
            ELSE IF p < b THEN Between(prtext(s, p, b, TRUE), endp)
            ELSE IF endp = lim THEN [s EXCEPT !.n = nlines]
            ELSE grepbuf_loop_at_lim(Logged(s, "execute", endp, lim), endp, lim, nlines)
        Match(m) == IF m.off = NoMatch THEN Rest
                    ELSE Found(p + m.off, p + m.off + m.size)
    IN  Match(execute(s.mem, p, lim - p))

\* after the loop: if (out_invert && p < lim) { prtext (p, lim, &n); ... }
grepbuf_rest(s, p, lim, nlines) ==
    LET Remainder(t) == [t EXCEPT !.outleft = @ - t.n, !.n = nlines + t.n]
    IN  IF opt.out_invert /\ p < lim THEN Remainder(prtext(s, p, lim, TRUE))
        ELSE [s EXCEPT !.n = nlines]

\* p = endp; and to the test of the loop again: the matcher is called on
\* [endp, lim); nlines is the count so far, kept in the field n
grepbuf_again(s, endp, lim, nlines) ==
    [Logged(s, "execute", endp, lim) EXCEPT !.again = TRUE, !.p = endp, !.n = nlines]

\* a selected line was printed, endp is its end
grepbuf_selected(t, endp, lim, nlines) ==
    IF t.outleft = 0 \/ t.done_on_match # 0
    THEN IF opt.exit_on_match
         THEN [t EXCEPT !.exited = TRUE, !.n = nlines + 1]
         ELSE [t EXCEPT !.after_last_match = t.bufoffset - (t.buflim - endp),
                        !.n = nlines + 1]
    ELSE grepbuf_again(t, endp, lim, nlines + 1)

\* the lines between p and a match were printed, endp is the end of the match
grepbuf_between(t, endp, lim, nlines) ==
    IF t.outleft - t.n = 0
    THEN [t EXCEPT !.outleft = 0, !.n = nlines + t.n]
    ELSE grepbuf_again([t EXCEPT !.outleft = @ - t.n], endp, lim, nlines + t.n)

\* the body of the loop of grepbuf: the matcher found the line [b, endp)
grepbuf_found(s, p, lim, nlines, b, endp) ==
    IF ~opt.out_invert
    THEN grepbuf_selected([prtext(s, b, endp, FALSE) EXCEPT !.outleft = @ - 1],
                          endp, lim, nlines)
    ELSE IF p < b THEN grepbuf_between(prtext(s, p, b, TRUE), endp, lim, nlines)
    ELSE grepbuf_again(s, endp, lim, nlines)

\* the loop of grepbuf after the matcher returned m
grepbuf_match(s, p, lim, nlines, m) ==
    IF m.off = NoMatch \/ p + m.off = lim THEN grepbuf_rest(s, p, lim, nlines)
    ELSE grepbuf_found(s, p, lim, nlines, p + m.off, p + m.off + m.size)

\* one pass of the while loop of grepbuf from position p on, nlines counted so
\* far: to the test of the loop again (the field again, with p and the count
\* in the fields p and n), or to the return of grepbuf (the value returned in
\* the field n; exited says exit (0) ran)
grepbuf_pass(s, p, lim, nlines) ==
    grepbuf_match(s, p, lim, nlines, execute(s.mem, p, lim - p))

RECURSIVE grepbuf_loop(_, _, _, _)
\* the test of the loop again, after a pass left grepbuf at t
grepbuf_next(t, lim) ==
    IF t.again THEN grepbuf_loop([t EXCEPT !.again = FALSE], t.p, lim, t.n) ELSE t

\* the while loop of grepbuf from position p on, and what follows it
grepbuf_loop(s, p, lim, nlines) == grepbuf_next(grepbuf_pass(s, p, lim, nlines), lim)

grepbuf(s, beg, lim) ==
    grepbuf_loop(Logged(Logged(s, "grepbuf", beg, lim), "execute", beg, lim),
                 beg, lim, 0)

-----------------------------------------------------------------------------
(* Files.  A node of the file system is a record:                           *)
(*   kind   "reg", "dir" or "fifo"                                           *)
(*   data   the bytes of a regular file or of a pipe                         *)
(*   open   what open() does: "ok", "ENOENT", "EISDIR", "EACCES"            *)
(*   fstat  whether fstat() succeeds                                         *)
(*   rderr  the file offset from which read() fails with EIO (Null: never)   *)
(*   short  whether read() may return fewer bytes than asked for             *)
(*   ents   a directory's entries, a sequence of [name, ino]                 *)
(* Standard input is the node StdinIno; start is the offset its descriptor   *)
(* has when the process starts and seek says whether lseek() works on it.    *)

st_size(nd) == Len(nd.data)
S_ISREG(nd) == nd.kind = "reg"
S_ISDIR(nd) == nd.kind = "dir"

\* the bytes [off, off + n) of a file
FileBytes(nd, off, n) == [i \in 1..n |-> nd.data[off + i]]

\* what a read of up to readsize bytes at offset pos may return: a byte count,
\* or Null for a failure (EISDIR on a directory, EIO from rderr on)
ReadResults(nd, pos, readsize) ==
    IF S_ISDIR(nd) \/ (nd.rderr # Null /\ pos >= nd.rderr) THEN {Null}
    ELSE LET end  == IF nd.rderr # Null /\ nd.rderr < st_size(nd)
                     THEN nd.rderr ELSE st_size(nd)
             left == MAX(end - pos, 0)
             most == IF left < readsize THEN left ELSE readsize
         IN  IF most = 0 THEN {0}
             ELSE IF nd.short THEN 1..most ELSE {most}

\* the errno a failed read leaves
ReadErrno(nd) == IF S_ISDIR(nd) THEN "EISDIR" ELSE "EIO"

-----------------------------------------------------------------------------
(* Buffer manager *)

\* error (mesg, errnum): a line on stderr, and nothing else
error(s, mesg) == [s EXCEPT !.stderr = Append(@, mesg)]

suppressible_error(s, mesg) ==
    [(IF ~opt.suppress_errors THEN error(s, mesg) ELSE s) EXCEPT !.errseen = 1]

\* page_alloc (size, &ubuffer) with the block placed so that the first page
\* boundary is al bytes into it: the block of size + pagesize - 1 bytes keeps
\* the old block's bytes (realloc) and buffer becomes ubuffer + al
page_alloc(s, size, al) ==
    LET asize == size + s.pagesize - 1
    IN  [s EXCEPT !.mem = [i \in 0..(asize - 1) |->
                              IF i < s.asize THEN s.mem[i] ELSE Junk],
                  !.asize = asize,
                  !.buffer = al]

\* reset (fd, file, stats); the value it returns is left in the field ok.
\* file is <<>> for standard input (a null file name).
reset(s, file, nd, al) ==
    LET s1 == IF s.pagesize # 0
              THEN [s EXCEPT !.bufsalloc =
                        ALIGN_TO(s.bufalloc \div PREFERRED_SAVE_FACTOR, s.pagesize)]
              ELSE LET bufsalloc == ALIGN_TO(BUFSALLOC, PageSize)
                       bufalloc  == PREFERRED_SAVE_FACTOR * bufsalloc
                   IN  page_alloc([s EXCEPT !.pagesize = PageSize,
                                            !.bufsalloc = bufsalloc,
                                            !.bufalloc = bufalloc],
                                  bufalloc, al)
        s2 == [s1 EXCEPT !.buflim = s1.buffer]
    IN  IF ~nd.fstat THEN [error(s2, "fstat") EXCEPT !.ok = FALSE]
        ELSE IF opt.directories = "SKIP" /\ S_ISDIR(nd) THEN [s2 EXCEPT !.ok = FALSE]
        ELSE IF S_ISREG(nd)
        THEN IF file # <<>>
             THEN [s2 EXCEPT !.bufoffset = 0, !.initial_bufoffset = 0,
                             !.bufmapped = opt.mmap_option, !.ok = TRUE]
             ELSE IF ~nd.seek THEN [error(s2, "lseek") EXCEPT !.bufoffset = Null,
                                                              !.ok = FALSE]
             ELSE [s2 EXCEPT !.bufoffset = s2.fdpos,
                             !.initial_bufoffset = s2.fdpos,
                             !.bufmapped = opt.mmap_option /\ (s2.fdpos % s2.pagesize) = 0,
                             !.ok = TRUE]
        ELSE [s2 EXCEPT !.bufmapped = FALSE, !.ok = TRUE]

\* fillbuf, first part, without the growth of the save region
fillbuf_save_nogrow(s, nd, save, al) ==
    [s EXCEPT !.bufbeg = s.buffer + s.bufsalloc - save]

\* fillbuf, first part: grow the save region to hold save bytes and move the
\* saved bytes in front of the read region.  fatal says "memory exhausted".
fillbuf_save(s, nd, save, al) ==
    LET saved_offset == s.buflim - save
        aligned_save == ALIGN_TO(save, s.pagesize)
        to_be_read   == st_size(nd) - s.bufoffset
        slop         == to_be_read % s.pagesize
        aligned_to_be_read == to_be_read + (IF slop # 0 THEN s.pagesize - slop ELSE 0)
        \* Null stands for (size_t) -1, no upper bound
        maxalloc  == IF S_ISREG(nd) /\ aligned_save + aligned_to_be_read >= 0
                     THEN aligned_save + aligned_to_be_read ELSE Null
        RECURSIVE Doubled(_)
        Doubled(b) == IF b < save THEN Doubled(b * 2) ELSE b
        Grow(bufsalloc, newalloc) ==
            IF bufsalloc < save \/ newalloc < save
               \/ (newalloc = save /\ newalloc # maxalloc)
            THEN [s EXCEPT !.fatal = TRUE]
            ELSE IF s.bufalloc < newalloc
            THEN page_alloc([s EXCEPT !.bufsalloc = bufsalloc, !.bufalloc = newalloc],
                            newalloc + 1, al)
            ELSE [s EXCEPT !.bufsalloc = bufsalloc]
        Sized(doubled) ==
            IF maxalloc # Null /\ maxalloc < PREFERRED_SAVE_FACTOR * doubled
            THEN Grow(aligned_save, maxalloc)
            ELSE Grow(doubled, PREFERRED_SAVE_FACTOR * doubled)
        \* bufbeg = buffer + bufsalloc - save; memmove (bufbeg, ubuffer + saved_offset, save);
        Move(grown, bufbeg) ==
            [grown EXCEPT !.bufbeg = bufbeg,
                          !.mem = [i \in DOMAIN grown.mem |->
                                      IF i >= bufbeg /\ i < bufbeg + save
                                      THEN grown.mem[saved_offset + (i - bufbeg)]
                                      ELSE grown.mem[i]]]
        Moved(grown) == Move(grown, grown.buffer + grown.bufsalloc - save)
    IN  Moved(IF s.bufsalloc < save THEN Sized(Doubled(s.bufsalloc)) ELSE s)

\* the bytes of a mapping or a read put at bufbeg, over the bytes saved
Deliver_at_bufbeg(s, bytes) ==
    [s EXCEPT !.mem = [i \in DOMAIN s.mem |->
                          IF i >= s.bufbeg /\ i < s.bufbeg + Len(bytes)
                          THEN bytes[i - s.bufbeg + 1] ELSE s.mem[i]],
              !.fillsize = Len(bytes)]

\* the bytes put at buffer + bufsalloc by a mapping or a read
Deliver(s, bytes) ==
    [s EXCEPT !.mem = [i \in DOMAIN s.mem |->
                          IF i >= s.buffer + s.bufsalloc
                             /\ i < s.buffer + s.bufsalloc + Len(bytes)
                          THEN bytes[i - (s.buffer + s.bufsalloc) + 1] ELSE s.mem[i]],
              !.fillsize = Len(bytes)]

\* the size fillbuf would map (0 when the buffer is not mapped)
mmapsize(s, nd) ==
    LET readsize == s.bufalloc - s.bufsalloc
        left     == st_size(nd) - s.bufoffset
    IN  IF ~s.bufmapped THEN 0
        ELSE IF left < readsize THEN left - (left % s.pagesize)
        ELSE readsize

\* the else branch of the mapping without the lseek to bufoffset
fillbuf_unmap_nosync(s, nd) == [s EXCEPT !.bufmapped = FALSE]

\* the else branch of the mapping: stop using mmap, synchronize the file offset
fillbuf_unmap(s, nd) ==
    IF s.bufoffset # s.initial_bufoffset
    THEN IF nd.seek THEN [s EXCEPT !.bufmapped = FALSE, !.fdpos = s.bufoffset]
         ELSE [error(s, "lseek") EXCEPT !.bufmapped = FALSE, !.cc = 0,
                                        !.errno = "ESPIPE"]
    ELSE [s EXCEPT !.bufmapped = FALSE]

\* fillbuf, second part: map the next pages of the file if the buffer is mapped;
\* mapok says whether mmap() succeeds
fillbuf_map(s, nd, mapok) ==
    LET Map(s0, size) ==
          IF ~s0.bufmapped THEN s0
          ELSE IF size # 0 /\ mapok THEN Deliver(s0, FileBytes(nd, s0.bufoffset, size))
          ELSE fillbuf_unmap(s0, nd)
    IN  Map([s EXCEPT !.fillsize = 0, !.cc = 1], mmapsize(s, nd))

\* fillbuf, last part: read if nothing was mapped; rd is what read() returns
fillbuf_read(s, nd, rd) ==
    LET End(s1) == [s1 EXCEPT !.bufoffset = @ + s1.fillsize,
                              !.buflim = s1.buffer + s1.bufsalloc + s1.fillsize]
    IN  End(IF s.fillsize # 0 THEN s
            ELSE IF rd = Null THEN [s EXCEPT !.cc = 0, !.errno = ReadErrno(nd)]
            ELSE [Deliver(s, FileBytes(nd, s.fdpos, rd)) EXCEPT !.fdpos = @ + rd])

\* fillbuf (save, stats); the value it returns is left in the field cc
fillbuf(s, nd, save, al, mapok, rd) ==
    LET Fill(s1) == IF s1.fatal THEN s1
                    ELSE fillbuf_read(fillbuf_map(s1, nd, mapok), nd, rd)
    IN  Fill(fillbuf_save(s, nd, save, al))

\* what the read of a fillbuf (save) may return, given whether mmap() succeeds
FillReads(s, nd, save, al, mapok) ==
    LET Reads(s2) == IF s2.fatal \/ s2.fillsize # 0 THEN {0}
                     ELSE ReadResults(nd, s2.fdpos, s2.bufalloc - s2.bufsalloc)
        Mapped(s1) == IF s1.fatal THEN s1 ELSE fillbuf_map(s1, nd, mapok)
    IN  Reads(Mapped(fillbuf_save(s, nd, save, al)))

\* whether a fillbuf (save) tries to map
FillMaps(s, nd, save, al) ==
    LET Maps(s1) == ~s1.fatal /\ mmapsize(s1, nd) # 0
    IN  Maps(fillbuf_save(s, nd, save, al))

-----------------------------------------------------------------------------
(* File driver: grep ().  The function runs from one fillbuf to the next in  *)
(* one step; the field at says where it stands after the step:               *)
(*   "fill"  about to call fillbuf                                           *)
(*   "loop"  at the top of the for (;;) loop, a fillbuf just done            *)
(*   "ret"   returned, the value returned in the field ret                   *)
(*   "dir"   about to call grepdir on the operand                            *)
(*   "exit"  the process has exited (exit (0) in grepbuf, or fatal)          *)

\* return ret from grep ()
Return(s, ret) == [s EXCEPT !.at = "ret", !.ret = ret]

\* exit (code)
Exit(s, code) == [s EXCEPT !.at = "exit", !.ret = code]

\* finish_grep writing the message for every binary file, whatever nlines is
finish_grep_always(s) ==
    LET Report(s1) ==
            Return(IF s1.not_text = 1 /\ (s1.out_quiet % 2) = 0
                   THEN [s1 EXCEPT !.stdout = Append(@, [k |-> "binary",
                                                         file |-> s1.filename])]
                   ELSE s1,
                   s1.nlines)
    IN  Report([s EXCEPT !.done_on_match = @ - s.not_text,
                         !.out_quiet = @ - s.not_text])

\* finish_grep leaving done_on_match and out_quiet as the scan had them
finish_grep_keep(s) ==
    Return(IF s.not_text = 1 /\ (s.out_quiet % 2) = 0 /\ s.nlines # 0
           THEN [s EXCEPT !.stdout = Append(@, [k |-> "binary", file |-> s.filename])]
           ELSE s,
           s.nlines)

\* finish_grep: and the return
finish_grep(s) ==
    LET \* (not_text & ~out_quiet) && nlines != 0
        Report(s1) ==
            Return(IF s1.not_text = 1 /\ (s1.out_quiet % 2) = 0 /\ s1.nlines # 0
                   THEN [s1 EXCEPT !.stdout = Append(@, [k |-> "binary",
                                                         file |-> s1.filename])]
                   ELSE s1,
                   s1.nlines)
    IN  Report([s EXCEPT !.done_on_match = @ - s.not_text,
                         !.out_quiet = @ - s.not_text])

\* fillbuf failed inside grep ()
fillbuf_failed(s) ==
    IF s.errno # "EISDIR" THEN suppressible_error(s, s.filename) ELSE s

\* grep () from its first line to its first fillbuf, pending and lastout left
\* as the scan before left them
grep_enter_stale(s, file, nd, al) ==
    LET Enter(r) ==
          IF ~r.ok THEN Return(r, 0)
          ELSE IF file # <<>> /\ opt.directories = "RECURSE" /\ S_ISDIR(nd)
          THEN [r EXCEPT !.nopen = @ - 1, !.at = "dir"]
          ELSE [r EXCEPT !.totalcc = 0, !.totalnl = 0,
                         !.outleft = opt.max_count, !.after_last_match = 0,
                         !.nlines = 0, !.residue = 0, !.save = 0,
                         !.not_text = 0, !.log = <<>>, !.at = "fill"]
    IN  Enter(reset(s, file, nd, al))

\* grep () from its first line to its first fillbuf, the descriptor of a
\* directory left open when grepdir is called
grep_enter_dir_open(s, file, nd, al) ==
    LET Enter(r) ==
          IF ~r.ok THEN Return(r, 0)
          ELSE IF file # <<>> /\ opt.directories = "RECURSE" /\ S_ISDIR(nd)
          THEN [r EXCEPT !.at = "dir"]
          ELSE [r EXCEPT !.totalcc = 0, !.lastout = Null, !.totalnl = 0,
                         !.outleft = opt.max_count, !.after_last_match = 0,
                         !.pending = 0, !.nlines = 0, !.residue = 0, !.save = 0,
                         !.not_text = 0, !.log = <<>>, !.at = "fill"]
    IN  Enter(reset(s, file, nd, al))

\* grep () from its first line to its first fillbuf
grep_enter(s, file, nd, al) ==
    LET Enter(r) ==
          IF ~r.ok THEN Return(r, 0)
          ELSE IF file # <<>> /\ opt.directories = "RECURSE" /\ S_ISDIR(nd)
          THEN [r EXCEPT !.nopen = @ - 1, !.at = "dir"]
          ELSE [r EXCEPT !.totalcc = 0, !.lastout = Null, !.totalnl = 0,
                         !.outleft = opt.max_count, !.after_last_match = 0,
                         !.pending = 0, !.nlines = 0, !.residue = 0, !.save = 0,
                         !.not_text = 0, !.log = <<>>, !.at = "fill"]
    IN  Enter(reset(s, file, nd, al))

\* grep () from its first fillbuf on, an input with the binary marker scanned
\* under the without-match policy as it is under the binary policy
grep_first_fill_scan(s, nd, al, mapok, rd) ==
    LET Text(f, not_text) ==
          [f EXCEPT !.not_text = not_text,
                    !.done_on_match = @ + not_text,
                    !.out_quiet = @ + not_text,
                    !.at = "loop"]
        Filled(f) ==
          IF f.fatal THEN Exit(error(f, "memory exhausted"), 2)
          ELSE IF f.cc = 0 THEN Return(fillbuf_failed(f), 0)
          ELSE Text(f, IF ((opt.binary_files = "BINARY" /\ f.out_quiet = 0)
                           \/ opt.binary_files = "WITHOUT_MATCH")
                          /\ memchr(f.mem, f.bufbeg, IF eolbyte # Nul THEN Nul ELSE Hi,
                                     f.buflim - f.bufbeg) # Null
                       THEN 1 ELSE 0)
    IN  Filled(fillbuf(s, nd, 0, al, mapok, rd))

\* grep () from its first fillbuf to the top of the loop
grep_first_fill(s, nd, al, mapok, rd) ==
    LET Text(f, not_text) ==
          IF not_text = 1 /\ opt.binary_files = "WITHOUT_MATCH"
          THEN Return(f, 0)
          ELSE [f EXCEPT !.not_text = not_text,
                         !.done_on_match = @ + not_text,
                         !.out_quiet = @ + not_text,
                         !.at = "loop"]
        Filled(f) ==
          IF f.fatal THEN Exit(error(f, "memory exhausted"), 2)
          ELSE IF f.cc = 0 THEN Return(fillbuf_failed(f), 0)
          ELSE Text(f, IF ((opt.binary_files = "BINARY" /\ f.out_quiet = 0)
                           \/ opt.binary_files = "WITHOUT_MATCH")
                          /\ memchr(f.mem, f.bufbeg, IF eolbyte # Nul THEN Nul ELSE Hi,
                                     f.buflim - f.bufbeg) # Null
                       THEN 1 ELSE 0)
    IN  Filled(fillbuf(s, nd, 0, al, mapok, rd))

\* for (lim = buflim; lim > beg && lim[-1] != eol; --lim) ;
RECURSIVE LastLineEnd(_, _, _)
LastLineEnd(mem, lim, beg) ==
    IF lim > beg /\ mem[lim - 1] # eolbyte THEN LastLineEnd(mem, lim - 1, beg) ELSE lim

\* the walk back over the lines kept as leading context, going on past lastout
RECURSIVE SavedContext_past_lastout(_, _, _)
SavedContext_past_lastout(s, beg, i) ==
    IF i < opt.out_before /\ beg > s.bufbeg
    THEN SavedContext_past_lastout(s, BackOneLine(s.mem, beg, s.bufbeg), i + 1)
    ELSE beg

\* the walk back over the lines kept as leading context for the next buffer
RECURSIVE SavedContext(_, _, _)
SavedContext(s, beg, i) ==
    IF i < opt.out_before /\ beg > s.bufbeg /\ beg # s.lastout
    THEN SavedContext(s, BackOneLine(s.mem, beg, s.bufbeg), i + 1)
    ELSE beg

\* if (pending) prpending (lim); after grepbuf, unless it exited
grep_pending(s, lim) ==
    IF s.exited THEN s
    ELSE IF s.pending # 0 THEN prpending(s, lim) ELSE s

\* the scan of a buffer with nlines = grepbuf (beg, lim) for nlines += ...
grep_scan_assign(s, beg, lim) ==
    LET Counted(r) == [r EXCEPT !.nlines = r.n]
    IN  grep_pending(IF s.outleft # 0 THEN Counted(grepbuf(s, beg, lim)) ELSE s, lim)

\* if (outleft) nlines += grepbuf (beg, lim); if (pending) prpending (lim);
grep_scan(s, beg, lim) ==
    LET Counted(r) == [r EXCEPT !.nlines = @ + r.n]
    IN  grep_pending(IF s.outleft # 0 THEN Counted(grepbuf(s, beg, lim)) ELSE s, lim)

\* the statements after the loop left out: the residue is not scanned
grep_residue_dropped(s) == s

\* the statements after the loop without *buflim++ = eol: the residue is
\* scanned as it is
grep_residue_unterminated(s) ==
    IF s.residue = 0 THEN s
    ELSE grep_scan(s, s.bufbeg + s.save - s.residue, s.buflim)

\* the statements after the loop: the last line of a file that does not end
\* in an end-of-line byte gets one, written at buflim
grep_residue(s) ==
    IF s.residue = 0 THEN s
    ELSE grep_scan([s EXCEPT !.mem = [i \in (DOMAIN s.mem) \cup {s.buflim} |->
                                         IF i = s.buflim THEN eolbyte ELSE s.mem[i]],
                             !.overrun = @ \/ s.buflim >= s.asize,
                             !.buflim = @ + 1],
                   s.bufbeg + s.save - s.residue, s.buflim + 1)

\* whether grep () leaves the loop after scanning a buffer
grep_stop(s) ==
    (s.outleft = 0 /\ s.pending = 0)
    \/ (s.nlines # 0 /\ s.done_on_match # 0 /\ ~opt.out_invert)

\* save = residue + lim - beg; totalcc += buflim - bufbeg - save;
\* if (out_line) nlscan (beg); and on to the fillbuf (at = "fill")
grep_save(s, lim, beg) ==
    LET Numbered(s4) ==
            [(IF opt.out_line THEN nlscan(s4, beg) ELSE s4) EXCEPT !.at = "fill"]
    IN  Numbered([s EXCEPT !.lastout = IF beg # s.lastout THEN Null ELSE @,
                           !.save = s.residue + lim - beg,
                           !.totalcc = @ + (s.buflim - s.bufbeg)
                                         - (s.residue + lim - beg)])

\* the loop of grep () after the lines [beg, lim) of the buffer were scanned:
\* out of the loop, or the lines of leading context are kept and it goes on
grep_scanned(s, beg, lim) ==
    IF s.exited THEN Exit(s, 0)
    ELSE IF beg < lim /\ grep_stop(s) THEN finish_grep(s)
    ELSE grep_save(s, lim, SavedContext(s, lim, 0))

\* the loop of grep () from residue = buflim - lim on: the lines [beg, lim)
\* are scanned, if there are any
grep_lines(s, beg, lim) ==
    grep_scanned(IF beg < lim
                 THEN grep_scan([s EXCEPT !.residue = s.buflim - lim], beg, lim)
                 ELSE [s EXCEPT !.residue = s.buflim - lim],
                 beg, lim)

\* the loop of grep () from if (buflim - bufbeg == save) break; on, and the
\* statements after the loop when it is left there
grep_top(s) ==
    LET Finish(t) == IF t.exited THEN Exit(t, 0) ELSE finish_grep(t)
    IN  IF s.buflim - s.bufbeg = s.save THEN Finish(grep_residue(s))
        ELSE grep_lines(s, s.bufbeg + s.save - s.residue,
                        LastLineEnd(s.mem, s.buflim, s.bufbeg + s.save - s.residue))

\* one pass of the for (;;) loop of grep (), from its top to the fillbuf at
\* its end (at = "fill"), or out of the loop and to the return
grep_body(s) ==
    grep_top([s EXCEPT !.lastnl = s.bufbeg,
                       !.lastout = IF s.lastout # Null THEN s.bufbeg ELSE Null])

\* the fillbuf at the end of the loop, saving nothing of the old buffer
grep_fill_nosave(s, nd, al, mapok, rd) ==
    LET Filled(f) == IF f.fatal THEN Exit(error(f, "memory exhausted"), 2)
                     ELSE IF f.cc = 0 THEN finish_grep(fillbuf_failed(f))
                     ELSE [f EXCEPT !.at = "loop"]
    IN  Filled(fillbuf(s, nd, 0, al, mapok, rd))

\* the fillbuf at the end of the loop
grep_fill(s, nd, al, mapok, rd) ==
    LET Filled(f) == IF f.fatal THEN Exit(error(f, "memory exhausted"), 2)
                     ELSE IF f.cc = 0 THEN finish_grep(fillbuf_failed(f))
                     ELSE [f EXCEPT !.at = "loop"]
    IN  Filled(fillbuf(s, nd, s.save, al, mapok, rd))

-----------------------------------------------------------------------------
(* File driver: grepfile (), and the directory walker grepdir ().  The field *)
(* at says where grepfile stands: "grep" (the operand is open, grep () is to *)
(* be called), "dir" (grepdir is to be called), "done" (returned, the status *)
(* in the field st).                                                         *)

Done(s, st) == [s EXCEPT !.at = "done", !.st = st]

\* grepfile () up to its call of grep (); file is <<>> for standard input
grepfile_open(s, file, nd) ==
    IF file = <<>>
    THEN [s EXCEPT !.filename = <<"(standard input)">>, !.fdpos = s.stdinpos,
                   !.at = "grep"]
    ELSE IF nd.open = "ok"
    THEN [s EXCEPT !.filename = file, !.fdpos = 0, !.nopen = @ + 1, !.at = "grep"]
    ELSE IF nd.open = "EISDIR" /\ opt.directories = "RECURSE"
    THEN IF ~nd.fstat THEN Done(error(s, file), 1) ELSE [s EXCEPT !.at = "dir"]
    ELSE IF ~opt.suppress_errors /\ opt.directories = "SKIP"
            /\ (nd.open = "EISDIR" \/ (nd.open = "EACCES" /\ S_ISDIR(nd)))
    THEN Done(s, 1)
    ELSE Done(suppressible_error(s, file), 1)

\* the offset grepfile leaves the descriptor at, were it always bufoffset
required_offset_end(s) == s.bufoffset

\* off_t required_offset = outleft ? bufoffset : after_last_match;
required_offset(s) == IF s.outleft # 0 THEN s.bufoffset ELSE s.after_last_match

\* grepfile after grep () returns, naming every file under -l and -L
grepfile_close_named(s, file, nd) ==
    LET count  == s.ret
        s1     == IF opt.count_matches
                  THEN [s EXCEPT !.stdout = Append(@,
                           [k |-> "count",
                            file |-> IF s.out_file # 0 THEN s.filename ELSE <<>>,
                            n |-> count])]
                  ELSE s
        st     == IF count = 0 THEN 1 ELSE 0
        s2     == IF opt.list_files # 0
                  THEN [s1 EXCEPT !.stdout = Append(@, [k |-> "name", file |-> s1.filename])]
                  ELSE s1
        s3     == IF file = <<>>
                  THEN LET sk == IF s2.bufmapped \/ required_offset(s2) # s2.bufoffset
                                 THEN IF nd.seek THEN [s2 EXCEPT !.fdpos = required_offset(s2)]
                                      ELSE IF S_ISREG(nd) THEN error(s2, s2.filename)
                                      ELSE s2
                                 ELSE s2
                       IN  [sk EXCEPT !.stdinpos = sk.fdpos]
                  ELSE [s2 EXCEPT !.nopen = @ - 1]
    IN  IF count < 0 THEN Done(s, count + 2) ELSE Done(s3, st)

\* grepfile () after grep () returned count (in the field ret)
grepfile_close(s, file, nd) ==
    LET count  == s.ret
        s1     == IF opt.count_matches
                  THEN [s EXCEPT !.stdout = Append(@,
                           [k |-> "count",
                            file |-> IF s.out_file # 0 THEN s.filename ELSE <<>>,
                            n |-> count])]
                  ELSE s
        st     == IF count = 0 THEN 1 ELSE 0
        s2     == IF opt.list_files = 1 - 2 * st
                  THEN [s1 EXCEPT !.stdout = Append(@, [k |-> "name", file |-> s1.filename])]
                  ELSE s1
        s3     == IF file = <<>>
                  THEN LET sk == IF s2.bufmapped \/ required_offset(s2) # s2.bufoffset
                                 THEN IF nd.seek THEN [s2 EXCEPT !.fdpos = required_offset(s2)]
                                      ELSE IF S_ISREG(nd) THEN error(s2, s2.filename)
                                      ELSE s2
                                 ELSE s2
                       IN  [sk EXCEPT !.stdinpos = sk.fdpos]
                  ELSE [s2 EXCEPT !.nopen = @ - 1]
    IN  IF count < 0 THEN Done(s, count + 2) ELSE Done(s3, st)

\* grepdir () without the search for the directory among its ancestors
grepdir_enter_unchecked(s, dir, ino, nd, chain) ==
    IF ~nd.list THEN Done(suppressible_error(s, dir), 1)
    ELSE [s EXCEPT !.out_file = @ + (IF opt.no_filenames THEN 0 ELSE 1),
                   !.at = "walk"]

\* grepdir () up to its loop over the entries: chain holds the inode numbers
\* of the directories being walked (the ancestors of stats).  at is "walk"
\* when the loop is entered.
grepdir_enter(s, dir, ino, nd, chain) ==
    IF ino \in chain
    THEN Done(IF ~opt.suppress_errors
              THEN [s EXCEPT !.stderr = Append(@, "recursive directory loop")]
              ELSE s, 1)
    ELSE IF ~nd.list THEN Done(suppressible_error(s, dir), 1)
    ELSE [s EXCEPT !.out_file = @ + (IF opt.no_filenames THEN 0 ELSE 1),
                   !.at = "walk"]

\* grepdir () after its loop
grepdir_leave(s, st) ==
    Done([s EXCEPT !.out_file = @ - (IF opt.no_filenames THEN 0 ELSE 1)], st)

\* a & b for the statuses 0 and 1
BitAnd(a, b) == IF a = 1 /\ b = 1 THEN 1 ELSE 0

-----------------------------------------------------------------------------
(* The process *)

\* the operands main runs grepfile on: standard input when there is none,
\* and for the operand "-"
StdinIno == 0
Stdin == [file |-> <<>>, ino |-> StdinIno]
Operands == IF argv = <<>> THEN <<Stdin>> ELSE argv

\* the inode numbers of the directories being walked
Chain(stk) == {stk[i].ino : i \in 1..Len(stk)}

\* grepfile returned st to its caller: main's loop, or the innermost grepdir
\* (whose frames are stk)
GrepfileReturns(t, st, stk) ==
    /\ g' = [t EXCEPT !.at = "main"]
    /\ exit_status' = exit_status
    /\ cur' = cur
    /\ IF stk = <<>>
       THEN /\ status' = BitAnd(status, st)
            /\ optind' = optind + 1
            /\ pc' = "main"
            /\ stack' = stk
       ELSE /\ stack' = [stk EXCEPT ![Len(stk)].status = BitAnd(@, st)]
            /\ pc' = "dir"
            /\ UNCHANGED <<status, optind>>

\* the process goes on from the state t a step of grepfile on operand o left,
\* under the grepdir frames stk
Proceed(t, o, stk) ==
    CASE t.at = "exit" ->
           /\ g' = t
           /\ pc' = "exit"
           /\ exit_status' = t.ret
           /\ stack' = stk
           /\ UNCHANGED <<status, optind, cur>>
      [] t.at = "grep" ->
           /\ g' = t
           /\ pc' = "grep"
           /\ cur' = o
           /\ stack' = stk
           /\ UNCHANGED <<status, optind, exit_status>>
      [] t.at = "loop" ->
           /\ g' = t
           /\ pc' = "loop"
           /\ stack' = stk
           /\ UNCHANGED <<status, optind, cur, exit_status>>
      [] t.at = "ret" ->
           LET c == grepfile_close(t, o.file, fs[o.ino])
           IN  GrepfileReturns(c, c.st, stk)
      [] t.at = "done" -> GrepfileReturns(t, t.st, stk)
      [] t.at = "dir" ->
           LET d == grepdir_enter(t, o.file, o.ino, fs[o.ino], Chain(stk))
           IN  IF d.at = "done" THEN GrepfileReturns(d, d.st, stk)
               ELSE /\ g' = d
                    /\ pc' = "dir"
                    /\ stack' = Append(stk, [file |-> o.file, ino |-> o.ino,
                                             idx |-> 1, status |-> 1])
                    /\ UNCHANGED <<status, optind, cur, exit_status>>

\* The history of the run, kept for the properties only:
\*   calls   the operands grepfile was called on, in order, each with the
\*           offset its descriptor stands at (from)
\*   events  the system calls that failed and the directories that were passed
\*           over: records of the operand, the call and the errno
\*   deliv   the bytes the fills of the current operand delivered, in order
\*   maps    the number of these fills that mapped the file
\*   first   the bytes the first of these fills delivered
Event(o, call, errno) == [file |-> o.file, ino |-> o.ino, call |-> call, errno |-> errno]

\* what grepfile meets when it opens the operand o
OpenEvents(o) ==
    IF o.file = <<>> \/ fs[o.ino].open = "ok" THEN {}
    ELSE IF fs[o.ino].open = "EISDIR" /\ opt.directories = "RECURSE"
    THEN IF ~fs[o.ino].fstat THEN {Event(o, "stat", "EIO")} ELSE {}
    ELSE {Event(o, "open", fs[o.ino].open)}

\* what grepdir meets when it is called on o under the frames stk
DirEvents(t, o, stk) ==
    IF t.at # "dir" THEN {}
    ELSE IF o.ino \in Chain(stk) THEN {Event(o, "loop", "")}
    ELSE IF ~fs[o.ino].list THEN {Event(o, "savedir", "EACCES")}
    ELSE {}

\* what the step of grep () from s to t met: fill says whether it came to a
\* fillbuf, rd is what the read returned
GrepEvents(s, t, o, fill, rd) ==
    (IF s.at = "grep" /\ ~fs[o.ino].fstat THEN {Event(o, "fstat", "EIO")} ELSE {})
    \cup (IF s.at = "grep" /\ fs[o.ino].fstat /\ opt.directories = "SKIP"
             /\ S_ISDIR(fs[o.ino])
          THEN {Event(o, "skip", "")} ELSE {})
    \cup (IF s.at = "grep" /\ fs[o.ino].fstat /\ o.file = <<>> /\ S_ISREG(fs[o.ino])
             /\ ~fs[o.ino].seek
          THEN {Event(o, "lseek", "ESPIPE")} ELSE {})
    \cup (IF fill /\ rd = Null THEN {Event(o, "read", ReadErrno(fs[o.ino]))} ELSE {})
    \cup (IF fill /\ rd # Null /\ t.cc = 0 /\ ~t.fatal
          THEN {Event(o, "lseek", "ESPIPE")} ELSE {})

\* the bytes the fillbuf that led to f delivered
Delivered(f) ==
    IF f.at = "loop" THEN Bytes(f.mem, f.buffer + f.bufsalloc, f.buflim) ELSE <<>>

\* the bytes the first fillbuf of grep () delivered, fill the step from s to f
FirstFill(s, f, fill) ==
    IF s.at = "grep" /\ fill /\ f.at \in {"loop", "ret"} /\ f.cc # 0
    THEN Bytes(f.mem, f.buffer + f.bufsalloc, f.buflim)
    ELSE <<>>

\* grepfile is called on o and stands at t
Called(o, t, stk) ==
    hist' = [hist EXCEPT !.calls = Append(@, [file |-> o.file, ino |-> o.ino,
                                              from |-> IF o.file = <<>>
                                                       THEN g.stdinpos ELSE 0]),
                         !.events = @ \cup OpenEvents(o) \cup DirEvents(t, o, stk),
                         !.deliv = <<>>,
                         !.maps = 0,
                         !.first = <<>>]

\* main after the options: -m 0 exits at once
MainStart ==
    /\ pc = "start"
    /\ IF opt.max_count = 0
       THEN pc' = "exit" /\ exit_status' = 1
       ELSE pc' = "main" /\ exit_status' = exit_status
    /\ UNCHANGED <<opt, argv, fs, g, optind, status, stack, cur, hist>>

\* main calls grepfile on the next operand
MainNext ==
    /\ pc = "main"
    /\ optind <= Len(Operands)
    /\ LET Open(o, t) == Proceed(t, o, stack) /\ Called(o, t, stack)
           Call(o) == Open(o, grepfile_open(g, o.file, fs[o.ino]))
       IN  Call(Operands[optind])
    /\ UNCHANGED <<opt, argv, fs>>

\* main after the last operand: exit (errseen ? 2 : status)
MainExit ==
    /\ pc = "main"
    /\ optind > Len(Operands)
    /\ pc' = "exit"
    /\ exit_status' = IF g.errseen # 0 THEN 2 ELSE status
    /\ UNCHANGED <<opt, argv, fs, g, optind, status, stack, cur, hist>>

\* the placements of the first page boundary in a block malloc returns
Aligns == {0}

\* grep () went from s to t by a step that came to a fillbuf or not (fill),
\* where read returned rd
GrepStep(s, t, fill, rd) ==
    /\ Proceed(t, cur, stack)
    /\ hist' = [hist EXCEPT !.events = @ \cup GrepEvents(s, t, cur, fill, rd)
                                         \cup DirEvents(t, cur, stack),
                            !.deliv = @ \o Delivered(t),
                            !.maps = IF fill /\ t.at = "loop" /\ t.bufmapped
                                     THEN @ + 1 ELSE @,
                            !.first = IF s.at = "grep" THEN FirstFill(s, t, fill) ELSE @]

\* grep () stands at e and goes on through a fillbuf (save), if it is at one,
\* to the top of the loop; stay is the step when it is not at a fillbuf
GrepFills(s, e, save) ==
    IF e.at # "fill" THEN GrepStep(s, e, FALSE, 0)
    ELSE \E al \in Aligns, mapok \in BOOLEAN :
           /\ mapok \/ FillMaps(e, fs[cur.ino], save, al)
           /\ \E rd \in FillReads(e, fs[cur.ino], save, al, mapok) :
                GrepStep(s, IF save = 0 /\ s.at = "grep"
                            THEN grep_first_fill(e, fs[cur.ino], al, mapok, rd)
                            ELSE grep_fill(e, fs[cur.ino], al, mapok, rd),
                         TRUE, rd)

\* grepfile calls grep (), which runs to the top of its loop
GrepStart ==
    /\ pc = "grep"
    /\ \E al \in Aligns : GrepFills(g, grep_enter(g, cur.file, fs[cur.ino], al), 0)
    /\ UNCHANGED <<opt, argv, fs>>

\* one pass of the loop of grep ()
GrepLoop ==
    /\ pc = "loop"
    /\ LET Pass(b) == GrepFills(g, b, b.save) IN Pass(grep_body(g))
    /\ UNCHANGED <<opt, argv, fs>>

\* grepdir calls grepfile on the next entry of the directory
GrepdirNext ==
    /\ pc = "dir"
    /\ stack[Len(stack)].idx <= Len(fs[stack[Len(stack)].ino].ents)
    /\ LET Open(o, t, stk) == Proceed(t, o, stk) /\ Called(o, t, stk)
           Call(o, stk) == Open(o, grepfile_open(g, o.file, fs[o.ino]), stk)
           Entry(top, e) == Call([file |-> Append(top.file, e.name), ino |-> e.ino],
                                 [stack EXCEPT ![Len(stack)].idx = @ + 1])
       IN  Entry(stack[Len(stack)],
                 fs[stack[Len(stack)].ino].ents[stack[Len(stack)].idx])
    /\ UNCHANGED <<opt, argv, fs>>

\* grepdir is through the entries and returns its status
GrepdirReturn ==
    /\ pc = "dir"
    /\ LET top == stack[Len(stack)]
           t   == grepdir_leave(g, top.status)
       IN  /\ top.idx > Len(fs[top.ino].ents)
           /\ GrepfileReturns(t, t.st, SubSeq(stack, 1, Len(stack) - 1))
    /\ UNCHANGED <<opt, argv, fs, hist>>

Next ==
    \/ MainStart
    \/ MainNext
    \/ MainExit
    \/ GrepStart
    \/ GrepLoop
    \/ GrepdirNext
    \/ GrepdirReturn

-----------------------------------------------------------------------------
(* The command line and the file system *)

\* the switches of a command line; m is Null when -m is not given
NoFlags ==
    [c |-> FALSE, l |-> FALSE, L |-> FALSE, q |-> FALSE, s |-> FALSE,
     v |-> FALSE, n |-> FALSE, b |-> FALSE, H |-> FALSE, h |-> FALSE,
     A |-> 0, B |-> 0, m |-> Null, d |-> "READ", mmap |-> FALSE,
     bin |-> "BINARY", z |-> FALSE, e |-> "a", X |-> "grep"]

\* the option variables as main's switch leaves them (-L after -l when both)
main_options(f, nargs) ==
    [out_quiet       |-> IF f.c \/ f.l \/ f.L \/ f.q THEN 1 ELSE 0,
     count_matches   |-> f.c,
     list_files      |-> IF f.L THEN -1 ELSE IF f.l THEN 1 ELSE 0,
     done_on_match   |-> IF f.l \/ f.L \/ f.q THEN 1 ELSE 0,
     exit_on_match   |-> f.q,
     suppress_errors |-> f.s,
     out_invert      |-> f.v,
     out_line        |-> f.n,
     out_byte        |-> f.b,
     no_filenames    |-> f.h,
     out_after       |-> f.A,
     out_before      |-> f.B,
     max_count       |-> IF f.m = Null THEN OFF_T_MAX ELSE f.m,
     directories     |-> f.d,
     mmap_option     |-> f.mmap,
     binary_files    |-> f.bin,
     eolbyte         |-> IF f.z THEN Nul ELSE Eol,
     keys            |-> f.e,
     matcher         |-> f.X,
     out_file        |-> IF (nargs > 1 /\ ~f.h) \/ f.H THEN 1 ELSE 0]

\* the globals when main starts on the operands; start is the offset the
\* descriptor of standard input stands at
Globals(o, start) ==
    [mem |-> [i \in {} |-> Junk], asize |-> 0, buffer |-> 0, bufsalloc |-> 0,
     bufalloc |-> 0, bufbeg |-> 0, buflim |-> 0, pagesize |-> 0,
     bufoffset |-> 0, initial_bufoffset |-> 0, after_last_match |-> 0,
     bufmapped |-> FALSE, out_quiet |-> o.out_quiet, out_file |-> o.out_file,
     done_on_match |-> o.done_on_match, totalcc |-> 0, lastnl |-> Null,
     lastout |-> Null, totalnl |-> 0, outleft |-> 0, pending |-> 0,
     used |-> FALSE, errseen |-> 0, filename |-> <<>>, stdout |-> <<>>,
     stderr |-> <<>>, nlines |-> 0, residue |-> 0, save |-> 0, not_text |-> 0,
     n |-> 0, p |-> 0, exited |-> FALSE, ub |-> FALSE, overrun |-> FALSE,
     fatal |-> FALSE, fdpos |-> 0, stdinpos |-> start, nopen |-> 0,
     ok |-> TRUE, cc |-> 1, errno |-> "", fillsize |-> 0, at |-> "main",
     ret |-> 0, st |-> 0, log |-> <<>>, again |-> FALSE]

\* a file: kind "reg", "dir" or "fifo"; open is "ok" or the errno open fails
\* with; fstat, seek and list say whether fstat, lseek and savedir succeed;
\* rderr is the offset at which read starts to fail; short says whether read
\* may return fewer bytes than asked for
File(data) ==
    [kind |-> "reg", data |-> data, open |-> "ok", fstat |-> TRUE, seek |-> TRUE,
     list |-> TRUE, rderr |-> Null, short |-> FALSE, ents |-> <<>>]

Directory(ents) ==
    [File(<<>>) EXCEPT !.kind = "dir", !.ents = ents]

\* main starts run r: flags, operands, file system and the offset of stdin
Start(r) ==
    /\ opt = main_options(r.flags, Len(r.argv))
    /\ argv = r.argv
    /\ fs = r.fs
    /\ g = Globals(main_options(r.flags, Len(r.argv)), r.start)
    /\ pc = "start"
    /\ optind = 1
    /\ status = 1
    /\ stack = <<>>
    /\ cur = Stdin
    /\ exit_status = Null
    /\ hist = [calls |-> <<>>, events |-> {}, deliv |-> <<>>, maps |-> 0,
               first |-> <<>>]

\* a named operand
Op(name, ino) == [file |-> <<name>>, ino |-> ino]

\* A file system with one file of each sort: 1 has a line with a match and one
\* without, 2 has no match, 3 does not exist, 4 cannot be fstat'ed, 5 fails to
\* be read from its third byte on, 6 is a directory that holds 1, 2 and a
\* link to itself, 7 and 8 are directories open fails on, 9 is a directory
\* that cannot be listed, 10 is a file that cannot be opened, 11 is a file
\* lseek fails on.
Tree(stdin) ==
    [i \in 0..11 |->
       CASE i = 0  -> stdin
         [] i = 1  -> [File(<<"b", "n", "a", "n">>) EXCEPT !.short = TRUE]
         [] i = 2  -> File(<<"b", "n">>)
         [] i = 3  -> [File(<<>>) EXCEPT !.open = "ENOENT"]
         [] i = 4  -> [File(<<"a", "n">>) EXCEPT !.fstat = FALSE]
         [] i = 5  -> [File(<<"a", "n", "b", "n">>) EXCEPT !.rderr = 2]
         [] i = 6  -> Directory(<<[name |-> "m", ino |-> 1], [name |-> "l", ino |-> 6],
                                  [name |-> "x", ino |-> 2]>>)
         [] i = 7  -> [Directory(<<[name |-> "m", ino |-> 1]>>) EXCEPT !.open = "EISDIR"]
         [] i = 8  -> [Directory(<<>>) EXCEPT !.open = "EACCES"]
         [] i = 9  -> [Directory(<<>>) EXCEPT !.list = FALSE]
         [] i = 10 -> [File(<<"a", "n">>) EXCEPT !.open = "EACCES"]
         [] i = 11 -> [File(<<"b", "n", "a", "n", "b">>) EXCEPT !.seek = FALSE]]

TreeOperands ==
    {Stdin, Op("m", 1), Op("x", 2), Op("e", 3), Op("t", 4), Op("r", 5),
     Op("d", 6), Op("i", 7), Op("p", 8), Op("u", 9), Op("k", 10), Op("w", 11)}

\* what standard input may be: a file read from its start, a pipe, a file
\* whose offset cannot be told
Stdins ==
    {File(<<"a", "n">>), [File(<<"b", "n", "a">>) EXCEPT !.kind = "fifo", !.seek = FALSE],
     [File(<<"a", "n">>) EXCEPT !.seek = FALSE]}

\* the command lines of the runs over the tree
TreeFlags ==
    {[NoFlags EXCEPT !.q = q, !.s = s, !.d = d] :
        q \in BOOLEAN, s \in BOOLEAN, d \in {"READ", "SKIP", "RECURSE"}}
    \cup {[NoFlags EXCEPT !.l = TRUE, !.d = "RECURSE"],
          [NoFlags EXCEPT !.L = TRUE, !.d = "RECURSE"],
          [NoFlags EXCEPT !.L = TRUE, !.s = TRUE], [NoFlags EXCEPT !.l = TRUE],
          [NoFlags EXCEPT !.v = TRUE], [NoFlags EXCEPT !.c = TRUE],
          [NoFlags EXCEPT !.q = TRUE, !.v = TRUE],
          [NoFlags EXCEPT !.m = 0], [NoFlags EXCEPT !.mmap = TRUE]}

TreeArgvs == UNION {[1..k -> TreeOperands] : k \in 0..MaxArgs}

\* whether standard input is among the operands a
ReadsStdin(a) == a = <<>> \/ \E i \in 1..Len(a) : a[i] = Stdin

\* the runs over the tree: standard input is a file read from its start, or
\* any of Stdins when it is among the operands
Init ==
    \E f \in TreeFlags, a \in TreeArgvs, i \in Stdins :
        /\ i = File(<<"a", "n">>) \/ ReadsStdin(a)
        /\ Start([flags |-> f, argv |-> a, fs |-> Tree(i), start |-> 0])

Spec == Init /\ [][Next]_vars

\* The scans of one input: every text of up to MaxLen bytes over a matching
\* byte, a byte that does not match and the end-of-line byte, as a named file
\* whose reads may come short, as a file that is mapped where --mmap is given,
\* as a pipe or a file on standard input
Alphabet == {"a", "b", Eol}
ScanTexts == UNION {[1..k -> Alphabet] : k \in 0..MaxLen}

ScanFlags ==
    {[NoFlags EXCEPT !.n = TRUE, !.b = TRUE, !.v = v, !.A = c[1], !.B = c[2]] :
        v \in BOOLEAN, c \in {<<0, 0>>, <<1, 0>>, <<0, 1>>}}
    \cup {NoFlags, [NoFlags EXCEPT !.n = TRUE, !.A = 1, !.B = 1],
          [NoFlags EXCEPT !.n = TRUE, !.b = TRUE, !.A = 1, !.m = 1]}

MapFlags ==
    {[NoFlags EXCEPT !.mmap = TRUE, !.n = TRUE, !.b = TRUE, !.v = v, !.B = k] :
        v \in BOOLEAN, k \in 0..1}

CountFlags == {[f EXCEPT !.c = TRUE] : f \in ScanFlags}

PipeFlags ==
    {[NoFlags EXCEPT !.n = TRUE, !.b = TRUE, !.v = v, !.B = 1] : v \in BOOLEAN}

\* the size of the read region of the buffer reset allocates
ReadSize == (PREFERRED_SAVE_FACTOR - 1) * ALIGN_TO(BUFSALLOC, PageSize)

\* texts that take more than one full buffer
LongTexts ==
    {[i \in 1..(ReadSize + 2 * PageSize) |->
        <<"b", Eol, "a", "b", Eol, Eol, "a">>[((i * k) % 7) + 1]] : k \in 1..3}

\* the offsets the descriptor of standard input may stand at when grep starts
Starts == 0..PageSize

ScanFs(nd) == [i \in 0..1 |-> nd]

\* a scan of the node nd under the flags f: of standard input, whose
\* descriptor stands at start, or of the one operand
ScanRun(f, nd, stdin, start) ==
    [flags |-> f, argv |-> IF stdin THEN <<>> ELSE <<Op("f", 1)>>, fs |-> ScanFs(nd),
     start |-> start]

\* a pipe that holds the bytes d
Pipe(d) == [File(d) EXCEPT !.kind = "fifo", !.seek = FALSE, !.short = TRUE]

\* a run that walks a directory
WalkRun ==
    [flags |-> [NoFlags EXCEPT !.d = "RECURSE"], argv |-> <<Op("d", 2)>>,
     fs |-> [i \in 0..2 |-> IF i = 2 THEN Directory(<<[name |-> "m", ino |-> 1]>>)
                            ELSE File(<<"a", Eol>>)],
     start |-> 0]

InitScan ==
    \/ \E f \in ScanFlags \cup CountFlags, d \in ScanTexts :
          Start(ScanRun(f, [File(d) EXCEPT !.short = TRUE], FALSE, 0))
    \/ \E f \in MapFlags, d \in ScanTexts \cup LongTexts :
          Start(ScanRun(f, File(d), FALSE, 0))
    \/ \E f \in PipeFlags, d \in ScanTexts : Start(ScanRun(f, Pipe(d), TRUE, 0))
    \/ \E n \in BOOLEAN, d \in ScanTexts, k \in Starts :
          /\ k <= Len(d)
          /\ Start(ScanRun([NoFlags EXCEPT !.b = TRUE, !.n = n, !.mmap = n, !.A = 1],
                            File(d), TRUE, k))
    \/ Start(WalkRun)

SpecScan == InitScan /\ [][Next]_vars

-----------------------------------------------------------------------------
(* What the claims speak of, told from the inputs and the history of the run *)

\* the lines of the bytes d, each with its end-of-line byte but for a last
\* line that lacks one
RECURSIVE LinesOf(_)
LinesOf(d) ==
    IF d = <<>> THEN <<>>
    ELSE LET ends == {i \in 1..Len(d) : d[i] = eolbyte \/ i = Len(d)}
         IN  <<SubSeq(d, 1, Min(ends))>> \o LinesOf(SubSeq(d, Min(ends) + 1, Len(d)))

IsComplete(line) == line # <<>> /\ line[Len(line)] = eolbyte

\* the lines of node nd a scan from the offset from gets to see: all of them,
\* or the complete lines in front of the offset at which read fails
ScanLines(nd, from) ==
    IF nd.rderr = Null THEN LinesOf(SubSeq(nd.data, from + 1, Len(nd.data)))
    ELSE SelectSeq(LinesOf(SubSeq(nd.data, from + 1,
                                  IF nd.rderr < Len(nd.data) THEN nd.rderr
                                  ELSE Len(nd.data))),
                   IsComplete)

\* the line is selected: it matches, or under -v it does not
IsSelected(line) == LineSelects(line) # opt.out_invert

\* grepfile gets a descriptor for the operand c
Opened(c) == c.file = <<>> \/ fs[c.ino].open = "ok"

\* the operand c is scanned: it is opened, fstat'ed and not a directory
Scanned(c) ==
    /\ Opened(c)
    /\ fs[c.ino].fstat
    /\ ~S_ISDIR(fs[c.ino])
    /\ ~(c.file = <<>> /\ S_ISREG(fs[c.ino]) /\ ~fs[c.ino].seek)

\* the scan of operand c selects a line
ScanSelects(c) ==
    /\ Scanned(c)
    /\ \E i \in 1..Len(ScanLines(fs[c.ino], c.from)) :
          IsSelected(ScanLines(fs[c.ino], c.from)[i])

\* an event that is no trouble: a directory loop, a directory passed over
\* under the SKIP policy, a read that fails because the input is a directory
IsAdvisory(e) ==
    \/ e.call \in {"loop", "skip"}
    \/ /\ e.call = "open"
       /\ opt.directories = "SKIP"
       /\ S_ISDIR(fs[e.ino])
       /\ e.errno \in {"EISDIR", "EACCES"}
    \/ e.call = "read" /\ e.errno = "EISDIR"

\* trouble occurred on an input: open, stat, fstat, lseek, read or the listing
\* of a directory failed
Trouble == \E e \in hist.events : ~IsAdvisory(e)

\* an input had a selected line
AnySelected == \E i \in 1..Len(hist.calls) : ScanSelects(hist.calls[i])

\* C1: the exit status is 2 if and only if trouble occurred on an input;
\* otherwise it is 0 if and only if an input had a selected line; otherwise 1
C1_ExitStatus ==
    pc = "exit" =>
      exit_status = (IF Trouble THEN 2 ELSE IF AnySelected THEN 0 ELSE 1)

\* the operands main has called grepfile on, in order
TopCalls ==
    LET top == SelectSeq(hist.calls, LAMBDA c : Len(c.file) <= 1)
    IN  [i \in 1..Len(top) |-> [file |-> top[i].file, ino |-> top[i].ino]]

\* C2: each failure of open, read, fstat or lseek on an input sets errseen,
\* every operand of the command line is still called in order, and the exit
\* status is then 2
C2_PerInputFailure ==
    /\ Trouble => g.errseen = 1
    /\ (pc = "exit" /\ Trouble) => (exit_status = 2 /\ TopCalls = Operands)

\* the events the step adds to the history
NewEvents == hist'.events \ hist.events

\* C3: a step that meets only a directory loop or a directory to pass over
\* under SKIP leaves errseen alone and gives the status 1 to its caller,
\* whether or not -s is given
C3_Advisory ==
    [][(NewEvents # {} /\ \A e \in NewEvents : e.call \in {"loop", "skip", "open"}
                                                /\ IsAdvisory(e))
         => (g'.errseen = g.errseen /\ status' = status)]_vars

\* the names -l or -L printed, in order
Names ==
    LET names == SelectSeq(g.stdout, LAMBDA r : r.k = "name")
    IN  [i \in 1..Len(names) |-> names[i].file]

\* the name grepfile gives the operand c
NameOf(c) == IF c.file = <<>> THEN <<"(standard input)">> ELSE c.file

\* the inputs of the run, in order: the operands grepfile was called on, but
\* for the directories it walked instead
Inputs ==
    SelectSeq(hist.calls,
              LAMBDA c : ~(opt.directories = "RECURSE" /\ S_ISDIR(fs[c.ino])))

NamesOf(cs) == [i \in 1..Len(cs) |-> NameOf(cs[i])]

\* C8 as the specification has it: -l names each input with a selected line
\* once, -L names each input without a selected line once, and none else
C8_ListsEveryInput ==
    (pc = "exit" /\ opt.list_files # 0) =>
      Names = NamesOf(SelectSeq(Inputs,
                        LAMBDA c : ScanSelects(c) = (opt.list_files = 1)))

\* C8: -l names each input whose scan selects a line once, -L names each
\* input it could open and whose scan selects no line once, and none else
C8_ListsOpenedInputs ==
    (pc = "exit" /\ opt.list_files # 0) =>
      Names = NamesOf(SelectSeq(Inputs,
                        LAMBDA c : Opened(c)
                                   /\ ScanSelects(c) = (opt.list_files = 1)))

\* a run under -L is over that named an input and passed one it could not open
C8_Witness ==
    /\ pc = "exit"
    /\ opt.list_files = -1
    /\ Names # <<>>
    /\ \E i \in 1..Len(Inputs) : ~Opened(Inputs[i])

-----------------------------------------------------------------------------
(* The scan of one input *)

\* the run is over and had one operand, a file that was scanned
ScanDone == pc = "exit" /\ Len(hist.calls) = 1 /\ Scanned(hist.calls[1])

\* the bytes of the input from where its scan began
Input == SubSeq(fs[hist.calls[1].ino].data, hist.calls[1].from + 1,
                Len(fs[hist.calls[1].ino].data))

\* a line as it is printed: with the end-of-line byte the last line may lack
WithEol(line) == IF IsComplete(line) THEN line ELSE Append(line, eolbyte)

\* the lines of the input, as printed
InputLines == [i \in 1..Len(LinesOf(Input)) |-> WithEol(LinesOf(Input)[i])]

\* the offset in the input of the first byte of its line number k
RECURSIVE LineStart(_, _)
LineStart(lines, k) == IF k = 1 THEN 0 ELSE LineStart(lines, k - 1) + Len(lines[k - 1])

\* the number a sequence of decimal digits stands for
RECURSIVE Value(_)
Value(ds) ==
    IF ds = <<>> THEN 0
    ELSE 10 * Value(SubSeq(ds, 1, Len(ds) - 1))
         + CHOOSE d \in 0..9 : ds[Len(ds)] = <<"0", "1", "2", "3", "4", "5", "6", "7",
                                                "8", "9">>[d + 1]

\* the records of the lines printed, in order, the numbers printed with
\* them read back
Emitted ==
    LET lines == SelectSeq(g.stdout, LAMBDA r : r.k = "line")
    IN  [i \in 1..Len(lines) |->
            [lines[i] EXCEPT !.num = IF lines[i].num = <<>> THEN Null ELSE Value(@),
                             !.off = IF lines[i].off = <<>> THEN Null ELSE Value(@)]]

\* C4: under -v, without -m and without context, the lines printed are the
\* lines of the input that do not match, each once and in the input's order
C4_InvertedLines ==
    (ScanDone /\ opt.out_invert /\ g.out_quiet = 0 /\ opt.max_count = OFF_T_MAX
       /\ opt.out_before = 0 /\ opt.out_after = 0) =>
      /\ Len(Emitted) = Len(g.stdout)
      /\ [i \in 1..Len(Emitted) |-> Emitted[i].text]
           = SelectSeq(InputLines, LAMBDA l : ~LineSelects(l))

\* a scan under -v is over that printed lines from both sides of a line that
\* matches, and took more than one fill to do so
C4_Witness ==
    /\ ScanDone /\ opt.out_invert /\ g.out_quiet = 0 /\ opt.max_count = OFF_T_MAX
    /\ opt.out_before = 0 /\ opt.out_after = 0
    /\ Len(Emitted) >= 2
    /\ Len(Emitted) < Len(InputLines)
    /\ ~LineSelects(InputLines[1]) /\ ~LineSelects(InputLines[Len(InputLines)])
    /\ g.totalcc > 0

\* C5: under -n every line printed, selected or context, carries its 1-based
\* index in the input, and the numbers printed increase strictly
C5_LineNumbers ==
    (ScanDone /\ opt.out_line) =>
      /\ \A i \in 1..Len(Emitted) :
           /\ Emitted[i].num \in 1..Len(InputLines)
           /\ Emitted[i].text = InputLines[Emitted[i].num]
      /\ \A i \in 1..(Len(Emitted) - 1) : Emitted[i].num < Emitted[i + 1].num

\* a scan under -n is over that printed a line of context and a selected
\* line after it, neither the first line, from a buffer that was refilled
C5_Witness ==
    /\ ScanDone /\ opt.out_line
    /\ g.totalcc > 0
    /\ \E i \in 1..(Len(Emitted) - 1) :
         Emitted[i].sep = "-" /\ Emitted[i].num > 1 /\ Emitted[i + 1].sep = ":"

\* the offsets of the lines printed, under -b: each is base plus the offset
\* in the input of the first byte of the line, and they increase strictly
OffsetsFrom(base) ==
    /\ \A i \in 1..Len(Emitted) :
         \E k \in 1..Len(InputLines) :
           /\ opt.out_line => k = Emitted[i].num
           /\ Emitted[i].text = InputLines[k]
           /\ Emitted[i].off = base + LineStart(InputLines, k)
    /\ \A i \in 1..(Len(Emitted) - 1) : Emitted[i].off < Emitted[i + 1].off

\* C6 as the specification has it: under -b every line printed carries the
\* offset of its first byte in the file, for standard input as for a named file
C6_OffsetsInFile ==
    (ScanDone /\ opt.out_byte) => OffsetsFrom(hist.calls[1].from)

\* C6: under -b every line printed carries the offset of its first byte from
\* the place in the file where the scan began
C6_OffsetsFromStart ==
    (ScanDone /\ opt.out_byte) => OffsetsFrom(0)

\* a scan of standard input from an offset other than 0 is over that printed
\* a line which is not the first, from a buffer that was refilled
C6_Witness ==
    /\ ScanDone /\ opt.out_byte
    /\ hist.calls[1].from > 0
    /\ \E i \in 1..Len(Emitted) : Emitted[i].off > 0

\* a scan of a pipe is over that printed a line which is not the first,
\* after the buffer grew
C6_WitnessGrown ==
    /\ ScanDone /\ opt.out_byte
    /\ g.bufalloc > PREFERRED_SAVE_FACTOR * ALIGN_TO(BUFSALLOC, PageSize)
    /\ \E i \in 1..Len(Emitted) : Emitted[i].off > 0

-----------------------------------------------------------------------------
(* The scan of reference: the same functions, with nothing mapped and every *)
(* read returning all the bytes it is asked for                             *)

RECURSIVE RefLoop(_, _)
\* the loop of grep () from its top, to the return
RefLoop(s, nd) ==
    LET Pass(t) == IF t.at = "loop" THEN RefLoop(t, nd) ELSE t
        Fill(b) == IF b.at = "fill"
                   THEN grep_fill(b, nd, 0, TRUE,
                                  CHOOSE rd \in FillReads(b, nd, b.save, 0, TRUE) : TRUE)
                   ELSE b
    IN  Pass(Fill(grep_body(s)))

\* grepfile on the operand c, a file that is scanned
RefRun(c) ==
    LET nd == [fs[c.ino] EXCEPT !.short = FALSE]
        Close(t) == IF t.at = "ret" THEN grepfile_close(t, c.file, nd) ELSE t
        Loop(t) == IF t.at = "loop" THEN RefLoop(t, nd) ELSE t
        First(e) == grep_first_fill(e, nd, 0, TRUE,
                                    CHOOSE rd \in FillReads(e, nd, 0, 0, TRUE) : TRUE)
        Unmapped(e) == First([e EXCEPT !.bufmapped = FALSE])
    IN  Close(Loop(Unmapped(grep_enter(grepfile_open(Globals(opt, c.from), c.file, nd),
                                       c.file, nd, 0))))

\* the exit status of the run whose one operand left grepfile at t
RefStatus(t) == IF t.at = "exit" THEN t.ret ELSE IF t.errseen # 0 THEN 2 ELSE t.st

\* the output and the exit status are those of the scan of reference
SameAsRef ==
    LET Same(r) == g.stdout = r.stdout /\ exit_status = RefStatus(r)
    IN  Same(RefRun(hist.calls[1]))

\* C9: the output and the status of a scan are the same however the reads
\* split the input: they are those of the scan that gets it in one fill
C9_SplitsAgree ==
    (ScanDone /\ ~opt.mmap_option /\ Len(Input) <= ReadSize) => SameAsRef

\* a scan is over that printed a separator and a line of context after the
\* buffer grew to hold a line longer than the save region
C9_Witness ==
    /\ ScanDone /\ ~opt.mmap_option /\ Len(Input) <= ReadSize
    /\ g.bufalloc > PREFERRED_SAVE_FACTOR * ALIGN_TO(BUFSALLOC, PageSize)
    /\ \E i \in 1..Len(g.stdout) : g.stdout[i].k = "line" /\ g.stdout[i].sep = "-"

\* a scan is over that printed a separator, in more fills than one
C9_WitnessSeparator ==
    /\ ScanDone /\ ~opt.mmap_option /\ Len(Input) <= ReadSize
    /\ g.totalcc > 0
    /\ \E i \in 1..Len(g.stdout) : g.stdout[i] = SepRec

\* s is the beginning of t
IsPrefix(s, t) == Len(s) <= Len(t) /\ s = SubSeq(t, 1, Len(s))

\* the one operand is a regular file that is scanned with --mmap
MapScan ==
    /\ opt.mmap_option
    /\ Len(hist.calls) = 1
    /\ Scanned(hist.calls[1])
    /\ S_ISREG(fs[hist.calls[1].ino])

\* C10: with --mmap, whether a mapping succeeds or fails at any fill, the
\* fills deliver the bytes of the file in order, none skipped and none twice,
\* and the output and the status are those of the scan that only reads
C10_MappingAgrees ==
    MapScan =>
      /\ IsPrefix(hist.deliv, Input)
      /\ pc = "loop" => Len(hist.deliv) = g.bufoffset - hist.calls[1].from
      /\ pc = "exit" => (hist.deliv = Input /\ SameAsRef)

\* a scan of a file of two pages is over that mapped a fill and then read
C10_Witness ==
    /\ MapScan /\ pc = "exit"
    /\ Len(Input) = 2 * PageSize
    /\ hist.maps >= 1
    /\ ~g.bufmapped
    /\ g.stdout # <<>>

\* a scan is over that mapped a fill and read the next, where mmap failed
C10_WitnessFailure ==
    /\ MapScan /\ pc = "exit"
    /\ hist.maps >= 1
    /\ g.fdpos - (hist.maps * ReadSize) >= 2 * PageSize
    /\ g.stdout # <<>>

-----------------------------------------------------------------------------
(* The count of -c                                                          *)

\* the numbers of the lines of the input that are selected
SelectedIdx == {i \in 1..Len(InputLines) : IsSelected(InputLines[i])}

\* the numbers of the lines a run without -c and without -m prints: the
\* selected lines, and the lines of context around them
PrintedIdx ==
    {i \in 1..Len(InputLines) :
        \E j \in SelectedIdx : j - opt.out_before <= i /\ i <= j + opt.out_after}

\* the number of lines selected before -m stops the scan
NSel == Min({Cardinality(SelectedIdx), opt.max_count})

\* the counts that -c printed
Counts == SelectSeq(g.stdout, LAMBDA r : r.k = "count")

\* the selected lines printed
EmittedSelected == SelectSeq(Emitted, LAMBDA r : r.sep = ":")

\* the count of -c is the number of lines printed without -c: without -m, a
\* run without -c prints the selected lines and their context, and a run with
\* -c prints the number of those
C7_CountsPrintedLines ==
    (ScanDone /\ opt.max_count = OFF_T_MAX) =>
        IF opt.count_matches
        THEN Len(Counts) = 1 /\ Counts[1].n = Cardinality(PrintedIdx)
        ELSE g.out_quiet = 0 => Len(Emitted) = Cardinality(PrintedIdx)

\* without -m, a run without -c prints the selected lines and their context
PrintsContext ==
    (ScanDone /\ opt.max_count = OFF_T_MAX /\ ~opt.count_matches /\ g.out_quiet = 0) =>
        Len(Emitted) = Cardinality(PrintedIdx)

\* C7: the count printed under -c is the number of the selected lines that
\* the run without -c prints, the lines of context left out
C7_CountsSelectedLines ==
    ScanDone =>
        IF opt.count_matches
        THEN g.stdout = Counts /\ Len(Counts) = 1 /\ Counts[1].n = NSel
        ELSE g.out_quiet = 0 => (Len(EmittedSelected) = NSel /\ Counts = <<>>)

\* a run with -c and with context is over, that counted fewer lines than the
\* run without -c prints
C7_Witness ==
    /\ ScanDone /\ opt.count_matches
    /\ opt.out_after + opt.out_before > 0
    /\ Len(Counts) = 1
    /\ 0 < Counts[1].n /\ Counts[1].n < Cardinality(PrintedIdx)

\* a run without -c is over that printed lines of context
C7_WitnessPrinted ==
    /\ ScanDone /\ ~opt.count_matches
    /\ 0 < Len(EmittedSelected) /\ Len(EmittedSelected) < Len(Emitted)

-----------------------------------------------------------------------------
(* The walks of a graph of directories: the operand is the directory 2, the *)
(* directories 2 and 3 hold up to MaxEnts entries each, every one of them   *)
(* the file 1 or one of the two directories                                 *)

MaxEnts == 2

EntLists == UNION {[1..k -> 1..3] : k \in 0..MaxEnts}

\* the directory whose entries lead to the inodes targets, in order
DirectoryTo(targets) ==
    Directory([k \in 1..Len(targets) |->
                  [name |-> <<"x", "y", "z", "w">>[k], ino |-> targets[k]]])

WalkFs(e2, e3) ==
    [i \in 0..3 |-> IF i = 2 THEN DirectoryTo(e2)
                    ELSE IF i = 3 THEN DirectoryTo(e3)
                    ELSE File(<<"a", Eol>>)]

InitWalk ==
    \E s \in BOOLEAN, e2 \in EntLists, e3 \in EntLists :
        Start([flags |-> [NoFlags EXCEPT !.d = "RECURSE", !.s = s],
               argv |-> <<Op("d", 2)>>, fs |-> WalkFs(e2, e3), start |-> 0])

\* The process takes its next step as long as it has not exited: weak
\* fairness of Next, written without ENABLED.  Next is enabled exactly in the
\* states where pc is not "exit", and every step that changes vars is a step
\* of Next.
Fairness == []<>(pc = "exit") \/ []<><<TRUE>>_vars

SpecWalk == InitWalk /\ [][Next]_vars /\ Fairness

\* no two directories of the chain being walked are the same
ChainDistinct ==
    \A i \in 1..Len(stack), j \in 1..Len(stack) : stack[i].ino = stack[j].ino => i = j

\* the step calls grepdir on a directory that is among its ancestors
LoopStep == \E e \in NewEvents : e.call = "loop"

\* the step does not descend, and leaves 1 as the status of the operand
NotDescended ==
    /\ Len(stack') = Len(stack)
    /\ stack'[Len(stack)].status = stack[Len(stack)].status
    /\ g'.st = 1

\* C11 as the specification has it: at each re-entry the walker reports the
\* loop and returns 1 without descending
C11_LoopsReported ==
    [][LoopStep => (NotDescended
                    /\ g'.stderr = Append(g.stderr, "recursive directory loop"))]_vars

\* C11: the walk of a finite graph of directories ends; the chain of the
\* directories being walked never holds a directory twice; at each re-entry
\* the walker returns 1 without descending, and reports the loop unless -s
C11_WalkTerminates ==
    /\ [][LoopStep =>
            (NotDescended
             /\ g'.stderr = IF opt.suppress_errors THEN g.stderr
                            ELSE Append(g.stderr, "recursive directory loop"))]_vars
    /\ []ChainDistinct
    /\ <>(pc = "exit")

\* a walk under -s is over that came back to the operand through another
\* directory, and said nothing
C11_Witness ==
    /\ pc = "exit"
    /\ opt.suppress_errors
    /\ g.stderr = <<>>
    /\ \E e \in hist.events : e.call = "loop" /\ Len(e.file) = 3 /\ e.ino = 2


-----------------------------------------------------------------------------
(* The runs that stop before the end of the input: -m, on a named file and  *)
(* on standard input                                                        *)

\* the largest count given with -m
MaxCount == 2

\* -m with and without -v, -c and a line of trailing context
CountedFlags ==
    {[NoFlags EXCEPT !.n = TRUE, !.v = v, !.m = m, !.A = a, !.c = c] :
        v \in BOOLEAN, m \in 0..MaxCount, a \in 0..1, c \in BOOLEAN}

\* the scans of standard input: with and without -m, -v, a line of trailing
\* context and --mmap
StdinFlags ==
    {[NoFlags EXCEPT !.v = v, !.m = m, !.A = a, !.mmap = mm] :
        v \in BOOLEAN, m \in {Null} \cup 1..MaxCount, a \in 0..1, mm \in BOOLEAN}

InitOut ==
    \/ \E f \in CountedFlags, d \in ScanTexts :
          Start(ScanRun(f, [File(d) EXCEPT !.short = TRUE], FALSE, 0))
    \/ \E f \in StdinFlags, d \in ScanTexts, k \in Starts :
          /\ k <= Len(d)
          /\ Start(ScanRun(f, [File(d) EXCEPT !.short = ~f.mmap], TRUE, k))
    \/ Start(WalkRun)

SpecOut == InitOut /\ [][Next]_vars

\* the calls of grepbuf and prtext made for the current input
OutputCalls == SelectSeq(g.log, LAMBDA c : c.f \in {"grepbuf", "prtext"})

\* C12: outleft stays between 0 and max_count, at every step and at every
\* call of grepbuf, prtext and the matcher; grepbuf and prtext are never
\* called with outleft 0; an input has at most max_count selected lines
\* printed, or counted under -c; and with -m 0 the process exits with status
\* 1 and no input was opened
C12_OutleftBounded ==
    /\ 0 <= g.outleft /\ g.outleft <= opt.max_count
    /\ \A i \in 1..Len(g.log) : 0 <= g.log[i].outleft /\ g.log[i].outleft <= opt.max_count
    /\ \A i \in 1..Len(OutputCalls) : OutputCalls[i].outleft # 0
    /\ Len(SelectSeq(g.stdout, LAMBDA r : r.k = "line" /\ r.sep = ":")) <= opt.max_count
    /\ \A i \in 1..Len(Counts) : Counts[i].n <= opt.max_count
    /\ g.nlines <= opt.max_count
    /\ (pc = "exit" /\ opt.max_count = 0) => (hist.calls = <<>> /\ exit_status = 1)

\* a run under -v and -m is over whose input has more selected lines than the
\* count allows: the count was reached, the lines printed are that many
C12_Witness ==
    /\ ScanDone /\ opt.out_invert /\ opt.max_count = MaxCount
    /\ Cardinality(SelectedIdx) > MaxCount
    /\ g.outleft = 0
    /\ Len(EmittedSelected) = MaxCount

\* a run under -m 0 is over
C12_WitnessZero == pc = "exit" /\ opt.max_count = 0 /\ argv # <<>>

\* the run is over and scanned standard input, a regular file
StdinScanned ==
    /\ ScanDone
    /\ hist.calls[1].file = <<>>
    /\ S_ISREG(fs[StdinIno])

\* the input has as many selected lines as -m allows
CountReached == Cardinality(SelectedIdx) >= opt.max_count

\* the number of the selected line at which the count is reached
LastCounted ==
    CHOOSE k \in SelectedIdx : Cardinality({j \in SelectedIdx : j <= k}) = opt.max_count

\* C13: after the scan of standard input, a regular file, the descriptor
\* stands after the last selected line if the max count was reached, and at
\* the end of the data read (bufoffset) if it was not
C13_StdinOffset ==
    StdinScanned =>
        g.stdinpos = IF CountReached
                     THEN hist.calls[1].from + LineStart(LinesOf(Input), LastCounted + 1)
                     ELSE g.bufoffset

\* a scan of standard input from an offset that is not 0 is over: the count
\* was reached, read had gone past the last selected line and a line of
\* trailing context was printed after it
C13_Witness ==
    /\ StdinScanned /\ CountReached
    /\ hist.calls[1].from > 0
    /\ Len(Emitted) > Len(EmittedSelected)
    /\ g.stdinpos < g.bufoffset
    /\ g.stdinpos < hist.calls[1].from + Len(Input)

\* a scan of standard input is over that did not reach the count: the
\* descriptor stands at the end of the file
C13_WitnessEnd ==
    /\ StdinScanned /\ ~CountReached /\ opt.max_count = MaxCount
    /\ Len(EmittedSelected) > 0
    /\ g.stdinpos = Len(fs[StdinIno].data)

-----------------------------------------------------------------------------
(* Quiet mode                                                               *)

\* the step finds a selected line: grepbuf calls prtext on it
FoundStep == \E i \in (Len(g.log) + 1)..Len(g'.log) : g'.log[i].f = "prtext"

\* the run is over under -q and the scan of some input selected a line: the
\* status is 0 and that input is the last one grepfile was called on
QuietExit ==
    (pc = "exit" /\ opt.exit_on_match
        /\ \E i \in 1..Len(hist.calls) : ScanSelects(hist.calls[i])) =>
    /\ exit_status = 0
    /\ \A i \in 1..Len(hist.calls) : ScanSelects(hist.calls[i]) => i = Len(hist.calls)

\* C14: under -q the process exits with status 0 at the first selected line
\* of any input, with and without -v: the step that finds the line is the
\* last one, and no later input is scanned
C14_QuietExits ==
    /\ []QuietExit
    /\ [][(opt.exit_on_match /\ FoundStep) => (pc' = "exit" /\ exit_status' = 0)]_vars

\* the same of the runs without -v
QuietExitsNormal ==
    /\ [](~opt.out_invert => QuietExit)
    /\ [][(opt.exit_on_match /\ ~opt.out_invert /\ FoundStep)
             => (pc' = "exit" /\ exit_status' = 0)]_vars

-----------------------------------------------------------------------------
(* The runs with context: the input is up to MaxLines lines of one byte,    *)
(* each ended by the end-of-line byte of the run; the lines are numbered     *)

\* most lines of an input
MaxLines == 6

LineLists == UNION {[1..k -> {"a", "b"}] : k \in 0..MaxLines}

\* the text of the lines ls, each ended by the byte eol
TextOf(ls, eol) == [i \in 1..(2 * Len(ls)) |-> IF i % 2 = 1 THEN ls[(i + 1) \div 2] ELSE eol]

\* -n with and without -A 1, -B 1, -v and -z
CtxFlags ==
    {[NoFlags EXCEPT !.n = TRUE, !.A = a, !.B = b, !.v = v, !.z = z] :
        a \in 0..1, b \in 0..1, v \in BOOLEAN, z \in BOOLEAN}

\* the end-of-line byte of a run under the flags f
EolOf(f) == IF f.z THEN Nul ELSE Eol

\* the scans for the empty lines (the pattern ^$), for which the matcher
\* reports the empty line at the end of the region: the texts of up to MaxLen
\* bytes over one byte and the end-of-line byte
EmptyFlags ==
    {[NoFlags EXCEPT !.e = "^$", !.n = TRUE, !.v = v, !.m = cm[1], !.A = cm[2]] :
        v \in BOOLEAN, cm \in {<<Null, 0>>, <<1, 0>>, <<1, 1>>}}

EmptyTexts == UNION {[1..k -> {"b", Eol}] : k \in 0..MaxLen}

\* the scans of inputs that hold no end-of-line byte: the texts of up to
\* MaxLen bytes, and texts longer than the buffer reset allocates
UnendedFlags ==
    {[NoFlags EXCEPT !.v = v, !.A = c, !.B = c, !.n = (c = 1), !.c = k] :
        v \in BOOLEAN, c \in 0..1, k \in BOOLEAN}

UnendedTexts ==
    UNION {[1..k -> {"a", "b"}] : k \in 1..MaxLen}
    \cup {[i \in 1..(ReadSize + PageSize + 1) |-> IF i = k THEN "a" ELSE "b"] :
             k \in {0, 1, ReadSize + PageSize + 1}}

\* the scans under the without-match policy for binary files: the texts of
\* up to BinLen bytes over a byte that matches, NUL, '\200' and newline
BinLen == 3

BinFlags ==
    {[NoFlags EXCEPT !.bin = "WITHOUT_MATCH", !.z = z, !.c = (k = "c"),
                     !.L = (k = "L"), !.l = (k = "l"), !.v = (k = "v")] :
        z \in BOOLEAN, k \in {"", "c", "L", "l", "v"}}

BinTexts == UNION {[1..k -> {"a", Nul, Hi, Eol}] : k \in 0..BinLen}

\* lines; the longer ones take more than one fill as it is
InitCtx ==
    \/ \E f \in CtxFlags, ls \in LineLists :
          Start(ScanRun(f, [File(TextOf(ls, EolOf(f)))
                              EXCEPT !.short = (2 * Len(ls) <= MaxLines)], FALSE, 0))
    \/ \E f \in EmptyFlags, d \in EmptyTexts :
          Start(ScanRun(f, [File(d) EXCEPT !.short = TRUE], FALSE, 0))
    \/ \E f \in BinFlags, d \in BinTexts :
          Start(ScanRun(f, [File(d) EXCEPT !.short = TRUE], FALSE, 0))
    \/ \E f \in UnendedFlags, d \in UnendedTexts :
          \/ Start(ScanRun(f, [File(d) EXCEPT !.short = (Len(d) <= MaxLen)], FALSE, 0))
          \/ Len(d) > MaxLen /\ Start(ScanRun(f, Pipe(d), TRUE, 0))
    \/ Start(WalkRun)

SpecCtx == InitCtx /\ [][Next]_vars

\* the number printed with the record r of a line
NumOf(r) == Value(r.num)

\* C15: a separator is written before a group of lines exactly when context
\* is enabled, output has already occurred and the first line of the group
\* does not immediately follow the last line written, whether or not the two
\* lie in the same buffer fill: in the output of a scan with line numbers, a
\* separator stands between two lines whose numbers are not consecutive,
\* every two lines that follow each other without one have consecutive
\* numbers, and without context there is no separator
C15_SeparatorBetweenGroups ==
    (ScanDone /\ opt.out_line) =>
        \A k \in 1..Len(g.stdout) :
            IF g.stdout[k].k = "sep"
            THEN /\ opt.out_before + opt.out_after > 0
                 /\ 1 < k /\ k < Len(g.stdout)
                 /\ g.stdout[k - 1].k = "line" /\ g.stdout[k + 1].k = "line"
                 /\ NumOf(g.stdout[k + 1]) > NumOf(g.stdout[k - 1]) + 1
            ELSE (k < Len(g.stdout) /\ g.stdout[k + 1].k = "line"
                    /\ opt.out_before + opt.out_after > 0)
                 => NumOf(g.stdout[k + 1]) = NumOf(g.stdout[k]) + 1

\* a scan with leading context is over that took more than one fill and
\* wrote a separator and, in another place, two groups without one between
C15_Witness ==
    /\ ScanDone /\ opt.out_line /\ opt.out_before > 0
    /\ Len(hist.deliv) > ReadSize
    /\ \E k \in 1..Len(g.stdout) : g.stdout[k].k = "sep"
    /\ \E k \in 1..(Len(g.stdout) - 1) :
          /\ g.stdout[k].k = "line" /\ g.stdout[k].sep = ":"
          /\ g.stdout[k + 1].k = "line" /\ g.stdout[k + 1].sep = "-"

\* the lines i and i + 2 of the input are selected and the line between is not
SelectedAround(i) == i \in SelectedIdx /\ (i + 1) \notin SelectedIdx /\ (i + 2) \in SelectedIdx

\* the record k of the output is the line number num, written with sep
OutAt(k, num, sep) ==
    /\ k \in 1..Len(g.stdout)
    /\ g.stdout[k].k = "line"
    /\ NumOf(g.stdout[k]) = num
    /\ g.stdout[k].sep = sep

\* a scan with line numbers, one line of trailing context and no leading
\* context is over
TrailingScan ==
    /\ ScanDone /\ opt.out_line /\ opt.max_count = OFF_T_MAX
    /\ opt.out_after = 1 /\ opt.out_before = 0

\* with one line of trailing context and no leading context, two selected
\* lines with one line between them that is not selected are written with
\* the line between as context and then a separator
C16_SeparatorAfterContext ==
    TrailingScan =>
        /\ SelectedIdx # {} => exit_status = 0
        /\ \A i \in 1..Len(InputLines) :
              SelectedAround(i) =>
                  \E k \in 1..Len(g.stdout) :
                      /\ OutAt(k, i, ":") /\ OutAt(k + 1, i + 1, "-")
                      /\ k + 2 <= Len(g.stdout) /\ g.stdout[k + 2].k = "sep"
                      /\ OutAt(k + 3, i + 2, ":")

\* C16: with one line of trailing context and no leading context, two
\* selected lines with one line between them that is not selected are written
\* as one group: the first line, the line between as context, the second line
\* and its trailing context, with no separator; the status is 0
C16_ContextJoinsGroups ==
    TrailingScan =>
        /\ SelectedIdx # {} => exit_status = 0
        /\ \A i \in 1..Len(InputLines) :
              SelectedAround(i) =>
                  \E k \in 1..Len(g.stdout) :
                      /\ OutAt(k, i, ":") /\ OutAt(k + 1, i + 1, "-")
                      /\ OutAt(k + 2, i + 2, ":")
                      /\ (i + 3 <= Len(InputLines) /\ (i + 3) \notin SelectedIdx)
                            => OutAt(k + 3, i + 3, "-")

\* the scan of six lines of which the lines 3 and 5 match is over: the output
\* is the lines 3, 4, 5 and 6 and the status is 0
C16_Witness ==
    /\ TrailingScan /\ ~opt.out_invert
    /\ Input = TextOf(<<"b", "b", "a", "b", "a", "b">>, eolbyte)
    /\ Len(g.stdout) = 4
    /\ OutAt(1, 3, ":") /\ OutAt(2, 4, "-") /\ OutAt(3, 5, ":") /\ OutAt(4, 6, "-")
    /\ exit_status = 0

\* every separator line is followed by the end-of-line byte of the run: a
\* newline by default, a NUL byte under -z
C17_SeparatorEndsLikeLines ==
    \A k \in 1..Len(g.stdout) : g.stdout[k].k = "sep" => g.stdout[k].eol = eolbyte

\* C17: every separator line is followed by a newline, under -z too, where
\* the lines written around it end in a NUL byte
C17_SeparatorEndsInNewline ==
    \A k \in 1..Len(g.stdout) :
        g.stdout[k].k = "sep" =>
            /\ g.stdout[k].eol = Eol
            /\ k > 1 /\ g.stdout[k - 1].k = "line"
            /\ g.stdout[k - 1].text[Len(g.stdout[k - 1].text)] = eolbyte

\* a scan under -z is over that wrote a separator
C17_Witness ==
    /\ ScanDone /\ eolbyte = Nul
    /\ \E k \in 1..Len(g.stdout) : g.stdout[k].k = "sep"

\* the memory that holds the bytes d from the address 0 on
MemOf(d) == [i \in 0..(Len(d) - 1) |-> d[i + 1]]

\* the matcher, called on the bytes d, reports a match that begins at their end
MatchAtLim(d) == execute(MemOf(d), 0, Len(d)).off = Len(d)

\* C18: grepbuf emits no line that begins at lim, with and without -v: when
\* the matcher reports the empty line at the end of a region, prtext is not
\* called on it and outleft is not decremented for it, so that the lines
\* written are the selected lines of the input, and outleft is max_count less
\* their number
C18_NoLineAtLim ==
    /\ \A i \in 1..Len(g.log) : g.log[i].f = "prtext" => g.log[i].arg # <<>>
    /\ \A k \in 1..Len(g.stdout) : g.stdout[k].k = "line" => g.stdout[k].text # <<>>
    /\ (ScanDone /\ opt.keys = "^$") =>
          /\ Len(EmittedSelected) = NSel
          /\ \A k \in 1..Len(EmittedSelected) :
                EmittedSelected[k].text \in {InputLines[i] : i \in SelectedIdx}
          /\ g.outleft = opt.max_count - NSel

\* a scan for the empty lines is over: the matcher was called on a region
\* and reported the empty line at its end, and of the lines of the input,
\* some of them selected, the last one is not empty
C18_Witness ==
    /\ ScanDone /\ opt.keys = "^$" /\ ~opt.out_invert
    /\ \E i \in 1..Len(g.log) :
          g.log[i].f = "execute" /\ g.log[i].arg # <<>> /\ MatchAtLim(g.log[i].arg)
    /\ Len(EmittedSelected) > 0
    /\ InputLines[Len(InputLines)] # <<eolbyte>>

\* the same under -v
C18_WitnessInverted ==
    /\ ScanDone /\ opt.keys = "^$" /\ opt.out_invert
    /\ \E i \in 1..Len(g.log) :
          g.log[i].f = "execute" /\ g.log[i].arg # <<>> /\ MatchAtLim(g.log[i].arg)
    /\ Len(EmittedSelected) > 0

\* the run scans one input, which holds bytes and no end-of-line byte
Unended ==
    /\ Len(hist.calls) = 1 /\ Scanned(hist.calls[1])
    /\ Input # <<>>
    /\ \A i \in 1..Len(Input) : Input[i] # eolbyte

\* the calls of the matcher made for the current input
MatcherCalls == SelectSeq(g.log, LAMBDA c : c.f = "execute")

\* the byte that marks a binary file: NUL, or '\200' when the end-of-line
\* byte is NUL
BinaryMarker == IF eolbyte = Nul THEN Hi ELSE Nul

\* the run has one operand, scanned under the without-match policy, and the
\* first fill of its scan delivered the byte that marks a binary file
BinaryFirst ==
    /\ opt.binary_files = "WITHOUT_MATCH"
    /\ Len(hist.calls) = 1 /\ Scanned(hist.calls[1])
    /\ \E i \in 1..Len(hist.first) : hist.first[i] = BinaryMarker

\* the input is handed to the matcher once, when it is at its end: the matcher
\* is not called before; it is then called on the whole content with one
\* end-of-line byte appended (and after that on no bytes at all, if it is
\* called again); at most one line is written, the whole content with the
\* byte appended, and only if it is selected
MatchedOnce ==
    /\ MatcherCalls # <<>> => hist.deliv = Input
    /\ \A i \in 1..Len(MatcherCalls) :
          MatcherCalls[i].arg = IF i = 1 THEN Append(Input, eolbyte) ELSE <<>>
    /\ Len(Emitted) <= 1
    /\ \A k \in 1..Len(Emitted) :
          Emitted[k].text = Append(Input, eolbyte) /\ IsSelected(Input)
    /\ pc = "exit" =>
          /\ Len(MatcherCalls) >= 1
          /\ (g.out_quiet = 0 /\ IsSelected(Input)) => Len(Emitted) = 1
          /\ \A k \in 1..Len(Counts) : Counts[k].n = IF IsSelected(Input) THEN 1 ELSE 0

\* C19 as stated: every input that holds no end-of-line byte is handed to
\* the matcher once, with one end-of-line byte appended, and at most one line
\* is written, only if it is selected
C19_UnendedInput == Unended => MatchedOnce

\* C19: an input that holds no end-of-line byte, and is not passed over as a
\* binary file under the without-match policy, is handed to the matcher once
\* at its end, with one end-of-line byte appended, however many fills it
\* takes; at most one line is written, and only if it is selected
C19_UnendedTextInput == (Unended /\ ~BinaryFirst) => MatchedOnce

\* the scan of an input without an end-of-line byte, longer than the buffer
\* that reset allocates, is over, and its one line was written
C19_Witness ==
    /\ Unended /\ pc = "exit"
    /\ Len(Input) > ReadSize
    /\ Len(Emitted) = 1

\* the scan of a short input without an end-of-line byte is over, that is
\* not selected: the matcher was called once and no line was written
C19_WitnessShort ==
    /\ Unended /\ pc = "exit"
    /\ Len(Input) <= MaxLen
    /\ Len(MatcherCalls) = 1
    /\ g.out_quiet = 0 /\ Emitted = <<>>

-----------------------------------------------------------------------------
(* Binary files under the without-match policy                              *)

\* the names -l and -L printed
Listed == SelectSeq(g.stdout, LAMBDA r : r.k = "name")

\* C20: under the without-match policy, an input whose first fill holds the
\* binary marker is not scanned: the matcher is not called, no line is
\* written and no further fill is made; the status of the input is 1, so that
\* -c counts 0, -L lists the input, -l does not, and the exit status is 1
C20_BinaryWithoutMatch ==
    BinaryFirst =>
        /\ g.log = <<>>
        /\ Emitted = <<>>
        /\ hist.deliv = <<>>
        /\ pc \in {"main", "exit"}
        /\ g.st = 1 /\ status = 1
        /\ \A k \in 1..Len(Counts) : Counts[k].n = 0
        /\ Len(Counts) = IF opt.count_matches THEN 1 ELSE 0
        /\ Len(Listed) = IF opt.list_files = -1 THEN 1 ELSE 0
        /\ pc = "exit" => exit_status = 1

\* a run under the without-match policy and -z is over whose input holds a
\* line that matches and, in its first fill, the byte '\200'
C20_Witness ==
    /\ BinaryFirst /\ pc = "exit" /\ eolbyte = Nul
    /\ \E i \in 1..Len(InputLines) : LineSelects(InputLines[i])
    /\ Len(hist.first) < Len(Input)

\* the same without -z and under -L: the input holds a line that matches and
\* a NUL byte, and is listed
C20_WitnessListed ==
    /\ BinaryFirst /\ pc = "exit" /\ eolbyte = Eol /\ opt.list_files = -1
    /\ \E i \in 1..Len(InputLines) : LineSelects(InputLines[i])
    /\ Len(Listed) = 1

\* a run under the without-match policy is over whose input holds the marker,
\* but not in the first fill: the input was scanned
C20_WitnessLater ==
    /\ opt.binary_files = "WITHOUT_MATCH" /\ ScanDone /\ ~BinaryFirst
    /\ \E i \in 1..Len(Input) : Input[i] = BinaryMarker
    /\ Len(Emitted) > 0

-----------------------------------------------------------------------------
(* Binary files under the binary policy, and sequences of inputs           *)

\* the scans under the binary policy: the texts of up to BinLen bytes over a
\* byte that matches, NUL, '\200' and newline, with and without -z, -v, -n
\* and trailing context
BinaryFlags ==
    {[NoFlags EXCEPT !.z = z, !.v = v, !.n = n, !.A = a] :
        z \in BOOLEAN, v \in BOOLEAN, n \in BOOLEAN, a \in 0..1}

InitSeq ==
    \/ \E f \in BinaryFlags, d \in BinTexts :
          Start(ScanRun(f, [File(d) EXCEPT !.short = TRUE], FALSE, 0))
    \/ Start(WalkRun)

SpecSeq == InitSeq /\ [][Next]_vars

\* the run has one operand, scanned under the binary policy and not in quiet
\* mode, and the first fill of its scan delivered the byte that marks a
\* binary file
BinaryScan ==
    /\ opt.binary_files = "BINARY" /\ opt.out_quiet = 0
    /\ Len(hist.calls) = 1 /\ Scanned(hist.calls[1])
    /\ \E i \in 1..Len(hist.first) : hist.first[i] = BinaryMarker

\* the messages "Binary file <path> matches" written
Reports == SelectSeq(g.stdout, LAMBDA r : r.k = "binary")

\* a line of the input is selected
InputSelected == \E i \in 1..Len(InputLines) : IsSelected(InputLines[i])

\* C21: under the binary policy and not in quiet mode, no line of an input
\* whose first fill holds the binary marker is written; no message is written
\* before the scan is over, and when it is over the message "Binary file
\* <path> matches" was written once if a line of the input is selected and
\* not at all otherwise, and the status of the input is 0 exactly when it was
C21_BinaryMatches ==
    BinaryScan =>
        /\ Emitted = <<>>
        /\ \A k \in 1..Len(Reports) : Reports[k].file = hist.calls[1].file
        /\ pc \notin {"main", "exit"} => Reports = <<>>
        /\ pc \in {"main", "exit"} =>
              /\ Len(Reports) = IF InputSelected THEN 1 ELSE 0
              /\ g.st = IF InputSelected THEN 0 ELSE 1
              /\ status = g.st
              /\ g.stdout = Reports

\* a scan under the binary policy is over that took more than one fill; the
\* input holds the marker in its first fill and a selected line, and the
\* message was written
C21_Witness ==
    /\ BinaryScan /\ pc = "exit" /\ InputSelected
    /\ Len(hist.first) < Len(Input)
    /\ Len(Reports) = 1 /\ exit_status = 0

\* the same for an input without a selected line, under -v: no message
C21_WitnessNone ==
    /\ BinaryScan /\ pc = "exit" /\ ~InputSelected /\ opt.out_invert
    /\ Input # <<>>
    /\ g.stdout = <<>> /\ exit_status = 1

-----------------------------------------------------------------------------
(* The loop of grepbuf, pass by pass, under the matchers the interface      *)
(* allows                                                                    *)

\* the passes of the loop of grepbuf a run is followed through
MaxLog == 8

\* the command lines: the matcher that reports lines and the one that reports
\* the match itself, the pattern "a" and the empty pattern, with and without
\* -v and -m, the byte offsets printed
MatchFlags ==
    {[NoFlags EXCEPT !.b = TRUE, !.X = x, !.e = e, !.v = v, !.m = m] :
        x \in {"grep", "span"}, e \in {"a", ""}, v \in BOOLEAN, m \in {Null, 1, 2}}

\* the texts of complete lines, of up to MaxLen - 1 bytes
MatchTexts == {d \in ScanTexts : d # <<>> /\ Len(d) < MaxLen /\ d[Len(d)] = Eol}

InitMatch ==
    \E f \in MatchFlags, d \in MatchTexts : Start(ScanRun(f, File(d), FALSE, 0))

\* grep () comes to its call of grepbuf in the first pass of its loop, and
\* grepbuf to the first test of its loop
GrepbufCall ==
    /\ pc = "loop"
    /\ g.buflim - g.bufbeg # g.save
    /\ g.save = 0 /\ g.residue = 0 /\ g.outleft # 0
    /\ g.bufbeg < LastLineEnd(g.mem, g.buflim, g.bufbeg)
    /\ LET Call(s, lim) ==
               [Logged(Logged([s EXCEPT !.residue = s.buflim - lim],
                              "grepbuf", s.bufbeg, lim),
                       "execute", s.bufbeg, lim)
                  EXCEPT !.again = TRUE, !.p = s.bufbeg, !.n = 0]
       IN  g' = Call([g EXCEPT !.lastnl = g.bufbeg,
                               !.lastout = IF g.lastout # Null THEN g.bufbeg ELSE Null],
                     LastLineEnd(g.mem, g.buflim, g.bufbeg))
    /\ pc' = "buf"
    /\ UNCHANGED <<opt, argv, fs, optind, status, stack, cur, exit_status, hist>>

\* one pass of the loop of grepbuf
GrepbufPass ==
    /\ pc = "buf"
    /\ g.again
    /\ Len(g.log) <= MaxLog
    /\ g' = grepbuf_pass([g EXCEPT !.again = FALSE], g.p, g.buflim - g.residue, g.n)
    /\ UNCHANGED <<opt, argv, fs, pc, optind, status, stack, cur, exit_status, hist>>

\* grepbuf returns, and grep () goes on to the end of the pass of its loop
GrepbufReturn ==
    /\ pc = "buf"
    /\ ~g.again
    /\ LET Pass(t) == GrepFills(g, t, t.save)
           Scanned1(s, lim) == grep_scanned(grep_pending(s, lim), s.bufbeg, lim)
       IN  Pass(Scanned1([g EXCEPT !.nlines = @ + g.n], g.buflim - g.residue))
    /\ UNCHANGED <<opt, argv, fs>>

\* the pass of the loop of grep () that finds the end of the input
GrepLoopEnd ==
    /\ pc = "loop"
    /\ g.buflim - g.bufbeg = g.save
    /\ g.residue = 0
    /\ LET Pass(b) == GrepFills(g, b, b.save) IN Pass(grep_body(g))
    /\ UNCHANGED <<opt, argv, fs>>

NextMatch ==
    \/ MainStart
    \/ MainNext
    \/ MainExit
    \/ GrepStart
    \/ GrepbufCall
    \/ GrepbufPass
    \/ GrepbufReturn
    \/ GrepLoopEnd

SpecMatch == InitMatch /\ [][NextMatch]_vars

\* the run scans one input and not under -v
ScansSelected == ~opt.out_invert /\ Len(hist.calls) = 1 /\ Scanned(hist.calls[1])

\* the record r of standard output is a whole line of the input, written with
\* the offset of its first byte
WholeLine(r) ==
    \E i \in 1..Len(InputLines) :
        r.text = InputLines[i] /\ r.off = LineStart(InputLines, i)

\* C22: without -v, whatever match the matcher reports inside a line, the
\* bytes written for it are the whole line that holds the match, from the
\* byte after the end-of-line byte before it to the end-of-line byte after it
C22_WholeLines ==
    ScansSelected => \A k \in 1..Len(Emitted) : WholeLine(Emitted[k])

\* the same of the runs under a matcher that reports lines
WholeLinesOfLines ==
    (ScansSelected /\ opt.matcher = "grep") =>
        \A k \in 1..Len(Emitted) : WholeLine(Emitted[k])

\* under a matcher that reports the match itself, the bytes written are the
\* bytes of the match
SpanWritten ==
    /\ ScansSelected /\ opt.matcher = "span" /\ opt.keys = "a" /\ pc = "exit"
    /\ Len(Emitted) > 0
    /\ \A k \in 1..Len(Emitted) : Emitted[k].text = <<"a">>

\* C23: every pass of the loop of grepbuf that comes to the test of the loop
\* again has moved the position p forward, whatever the matcher reported
C23_Progress ==
    [][(pc = "buf" /\ g.again /\ pc' = "buf" /\ g'.again) => g'.p > g.p]_vars

\* the same of the passes in which the match reported is not empty
ProgressOfMatches ==
    [][(pc = "buf" /\ g.again /\ pc' = "buf" /\ g'.again /\ opt.keys # "")
          => g'.p > g.p]_vars

\* under -v and a matcher that reports the empty match at the start of the
\* region, grepbuf is still at the test of its loop after MaxLog passes, at
\* the position it began at
LoopStuck ==
    /\ pc = "buf" /\ g.again /\ opt.out_invert /\ opt.keys = "" /\ opt.matcher = "span"
    /\ Len(g.log) > MaxLog
    /\ g.p = g.bufbeg

-----------------------------------------------------------------------------
(* Trailing context, leading context and the maximum count together          *)

\* -n and -b with and without -v, -m, up to two lines of trailing and one of
\* leading context
TrailFlags ==
    {[NoFlags EXCEPT !.n = TRUE, !.b = TRUE, !.A = a, !.B = b, !.v = v, !.m = m] :
        a \in 0..2, b \in 0..1, v \in BOOLEAN, m \in {Null, 1, MaxCount}}

\* the inputs of up to MaxLines one-byte lines; on the shorter ones the reads
\* come short in every way, the longer ones take several fills; or the walk
InitTrail ==
    \/ \E f \in TrailFlags, ls \in LineLists :
          Start(ScanRun(f, [File(TextOf(ls, Eol))
                              EXCEPT !.short = (2 * Len(ls) <= MaxLines)], FALSE, 0))
    \/ Start(WalkRun)

SpecTrail == InitTrail /\ [][Next]_vars

\* the run has one input, a file that is scanned with its lines printed
PrintingScan ==
    /\ Len(hist.calls) = 1 /\ Scanned(hist.calls[1])
    /\ opt.out_line /\ opt.out_byte /\ opt.out_quiet = 0

\* the numbers of the lines L that are selected
SelectedOf(L) == {i \in 1..Len(L) : IsSelected(L[i])}

\* the selected lines, of the set Sel, that the maximum count lets through
CountedOf(Sel) ==
    {i \in Sel : Cardinality({j \in Sel : j <= i}) <= opt.max_count}

\* the lines, of n, that follow a printed selected line within out_after
\* lines, no selected line between
TrailingOf(Sel, Cnt, n) ==
    {i \in (1..n) \ Sel :
        \E j \in Cnt : /\ j < i /\ i <= j + opt.out_after
                       /\ \A l \in (j + 1)..i : l \notin Sel}

\* the lines that precede a printed selected line within out_before lines
LeadingOf(Sel, Cnt, n) ==
    {i \in (1..n) \ Sel : \E j \in Cnt : i < j /\ j <= i + opt.out_before}

\* the lines a scan writes: the selected lines the count allows and the lines
\* of context around them
WrittenOf(Sel, Cnt, n) == Cnt \cup TrailingOf(Sel, Cnt, n) \cup LeadingOf(Sel, Cnt, n)

WrittenIdx(Sel, n) == WrittenOf(Sel, CountedOf(Sel), n)

\* the records E are lines of the set S, the selected lines, of Sel, with ":"
\* and the others with "-", and when the run is over they are all the lines
\* of S, each once and in their order
PrintsLines(E, Sel, S) ==
    /\ \A k \in 1..Len(E) : (E[k].sep = ":") = (E[k].num \in Sel)
    /\ \A k \in 1..Len(E) : E[k].num \in S
    /\ pc = "exit" =>
          /\ Len(E) = Cardinality(S)
          /\ \A k \in 1..(Len(E) - 1) : E[k].num < E[k + 1].num

PrintsSelected(E, Sel, n) == PrintsLines(E, Sel, WrittenIdx(Sel, n))

PrintsInput(E, L) == PrintsSelected(E, SelectedOf(L), Len(L))

\* C24: after each selected line at most out_after following lines are
\* written as trailing context, with the separator "-"; the context ends at
\* the next selected line, which is written as a match, with ":", while the
\* maximum count allows; a selected line is never written with "-"; also when
\* the context goes on in a later fill and when the maximum count is reached.
\* At every step no record with "-" is a selected line, and when the scan is
\* over the lines written are exactly the selected lines the count allows,
\* with ":", and the lines of context around them, with "-".
C24_TrailingContext == PrintingScan => PrintsInput(Emitted, InputLines)

\* the numbers and the separators of the records E
Marks(E) == [k \in 1..Len(E) |-> <<E[k].num, E[k].sep>>]

\* a scan under -m 1 -A 2 of more than one fill is over: the first line is
\* selected and written, the second is written as context, and the third,
\* selected again, ends the context and is not written
C24_Witness ==
    /\ PrintingScan /\ pc = "exit"
    /\ opt.max_count = 1 /\ opt.out_after = 2 /\ ~opt.out_invert
    /\ Len(hist.deliv) > 2
    /\ Len(InputLines) > 3
    /\ SelectedOf(InputLines) = {1, 3}
    /\ Marks(Emitted) = <<<<1, ":">>, <<2, "-">>>>

\* a scan under -A 2 without -m is over: the context of the first selected
\* line ends at the second, which is written as a match with its own context
C24_WitnessNext ==
    /\ PrintingScan /\ pc = "exit"
    /\ opt.max_count = OFF_T_MAX /\ opt.out_after = 2 /\ opt.out_before = 0
    /\ Marks(Emitted) = <<<<1, ":">>, <<2, "-">>, <<3, ":">>, <<4, "-">>, <<5, "-">>>>
    /\ Len(InputLines) = 6

\* the records E are lines of L, written with the offsets of their first
\* bytes, and these increase
InOrder(E, L) ==
    /\ \A k \in 1..(Len(E) - 1) : E[k].off < E[k + 1].off
    /\ \A k \in 1..Len(E) :
          /\ E[k].num \in 1..Len(L)
          /\ E[k].off = LineStart(L, E[k].num)
          /\ E[k].text = L[E[k].num]

\* C25: within one input the offsets of the lines written one after the other
\* strictly increase: no line is written twice, as context and as a match, as
\* trailing and as leading context, or before and after a refill
C25_OffsetsIncrease == PrintingScan => InOrder(Emitted, InputLines)

\* a scan with leading and trailing context of more than one fill is over, in
\* which a line lies within the trailing context of one selected line and the
\* leading context of the next: it is written once
C25_Witness ==
    /\ PrintingScan /\ pc = "exit"
    /\ opt.out_after = 1 /\ opt.out_before = 1 /\ opt.max_count = OFF_T_MAX
    /\ Len(hist.deliv) > 2
    /\ SelectedOf(InputLines) = {2, 4}
    /\ Marks(Emitted) = <<<<1, "-">>, <<2, ":">>, <<3, "-">>, <<4, ":">>, <<5, "-">>>>

-----------------------------------------------------------------------------
(* Runs over several inputs of different sorts, grep () seen from its reset   *)
(* to its first fillbuf                                                       *)

\* where malloc may place the block of the buffer: the number of bytes from
\* its start to the first page boundary
PageAligns == 0..(PageSize - 1)

\* the size of the buffer reset allocates
InitialAlloc == PREFERRED_SAVE_FACTOR * ALIGN_TO(BUFSALLOC, PageSize)

\* A file system with inputs that leave grep () in different ways: 1 is a
\* binary file with a line that matches, 2 a text with a match before its
\* last line, 3 one line of as many bytes as the buffer reset allocates, not
\* ended, 4 a line longer than that buffer, 5 fails to be read from its third
\* byte on, 6 is a directory that holds 1 and 2, 7 a directory that holds 6
\* and 2, 8 cannot be fstat'ed.
InputTree ==
    [i \in 0..8 |->
       CASE i = 0 -> File(<<"a", Eol>>)
         [] i = 1 -> File(<<"a", Nul, Eol>>)
         [] i = 2 -> [File(<<"a", Eol, "b", Eol>>) EXCEPT !.short = TRUE]
         [] i = 3 -> File([k \in 1..InitialAlloc |-> "a"])
         [] i = 4 -> File([k \in 1..(InitialAlloc + PageSize) |->
                              IF k = InitialAlloc + PageSize THEN Eol ELSE "a"])
         [] i = 5 -> [File(<<"a", Eol, "b", Eol>>) EXCEPT !.rderr = 2]
         [] i = 6 -> Directory(<<[name |-> "n", ino |-> 1], [name |-> "x", ino |-> 2]>>)
         [] i = 7 -> Directory(<<[name |-> "d", ino |-> 6], [name |-> "x", ino |-> 2]>>)
         [] i = 8 -> [File(<<"a", Eol>>) EXCEPT !.fstat = FALSE]]

InputOperands ==
    {Op("n", 1), Op("x", 2), Op("u", 3), Op("g", 4), Op("r", 5), Op("d", 6),
     Op("e", 7), Op("t", 8)}

InputArgvs == UNION {[1..k -> InputOperands] : k \in 1..MaxArgs}

\* with and without -r, a line of trailing context, -m 1 and -l, and one
\* command line each with -h, -c, -v, --mmap and --directories=skip
InputFlags ==
    {[NoFlags EXCEPT !.d = d, !.A = a, !.m = m, !.l = l] :
        d \in {"READ", "RECURSE"}, a \in 0..1, m \in {Null, 1}, l \in BOOLEAN}
    \cup {[NoFlags EXCEPT !.d = "RECURSE", !.h = TRUE],
          [NoFlags EXCEPT !.d = "RECURSE", !.c = TRUE],
          [NoFlags EXCEPT !.d = "RECURSE", !.v = TRUE],
          [NoFlags EXCEPT !.mmap = TRUE], [NoFlags EXCEPT !.d = "SKIP"]}

InitInputs ==
    \E f \in InputFlags, a \in InputArgvs :
        Start([flags |-> f, argv |-> a, fs |-> InputTree, start |-> 0])

\* grepfile calls grep (), which runs through reset and, unless it returns or
\* turns to grepdir, on to its first fillbuf
GrepEnter ==
    /\ pc = "grep"
    /\ \E al \in PageAligns :
         LET Entered(e) ==
               IF e.at = "fill"
               THEN /\ g' = e
                    /\ pc' = "enter"
                    /\ UNCHANGED <<optind, status, stack, cur, exit_status, hist>>
               ELSE GrepStep(g, e, FALSE, 0)
         IN  Entered(grep_enter(g, cur.file, fs[cur.ino], al))
    /\ UNCHANGED <<opt, argv, fs>>

\* grep () from its first fillbuf to the top of its loop
GrepFirstFill ==
    /\ pc = "enter"
    /\ GrepFills([g EXCEPT !.at = "grep"], g, 0)
    /\ UNCHANGED <<opt, argv, fs>>

NextInputs ==
    \/ MainStart
    \/ MainNext
    \/ MainExit
    \/ GrepEnter
    \/ GrepFirstFill
    \/ GrepLoop
    \/ GrepdirNext
    \/ GrepdirReturn

SpecInputs == InitInputs /\ [][NextInputs]_vars

\* what grepdir adds to out_file while it is in its loop
Forced == IF opt.no_filenames THEN 0 ELSE 1

\* the process is outside of grep (), or in it before the first fillbuf
OutsideScan ==
    pc \in {"start", "main", "grep", "enter", "dir"} \/ (pc = "exit" /\ g.at # "exit")

\* C26: when grep () returns for an input, on every path, done_on_match and
\* out_quiet have the values they had before the call, and when grepdir
\* returns out_file has the value it had before the call: outside of grep ()
\* the two have the values main gave them, inside they are raised by
\* not_text, and out_file is raised by one for each grepdir that is in its
\* loop (unless -h is given)
C26_OptionsRestored ==
    /\ OutsideScan => /\ g.done_on_match = opt.done_on_match
                      /\ g.out_quiet = opt.out_quiet
    /\ pc = "loop" => /\ g.done_on_match = opt.done_on_match + g.not_text
                      /\ g.out_quiet = opt.out_quiet + g.not_text
    /\ g.out_file = opt.out_file + Len(stack) * Forced
    /\ pc \in {"start", "main", "exit"} /\ g.at # "exit" => g.out_file = opt.out_file

\* the records of standard output of the sort k
RecordsOf(k) == SelectSeq(g.stdout, LAMBDA r : r.k = k)

\* main is back from a directory in which a binary file was reported and a
\* line of a text was written with the name of its file, and goes on to the
\* next operand
C26_Witness ==
    /\ pc = "main" /\ optind = 2 /\ Len(argv) = 2
    /\ opt.directories = "RECURSE" /\ ~opt.no_filenames
    /\ argv[1] = Op("e", 7)
    /\ Len(RecordsOf("binary")) = 1
    /\ \E k \in 1..Len(g.stdout) :
          g.stdout[k].k = "line" /\ g.stdout[k].file = <<"e", "d", "x">>

\* the session of grep () is fresh: the counters are as lines 722-727 set
\* them, and reset left the buffer empty
FreshScan ==
    /\ g.totalcc = 0 /\ g.totalnl = 0 /\ g.pending = 0 /\ g.lastout = Null
    /\ g.outleft = opt.max_count
    /\ g.buflim = g.buffer

\* the bytes between bufbeg and buflim are the first bytes of the file of the
\* current operand
WindowOfInput ==
    /\ g.buflim - g.bufbeg <= Len(fs[cur.ino].data)
    /\ Bytes(g.mem, g.bufbeg, g.buflim)
          = SubSeq(fs[cur.ino].data, 1, g.buflim - g.bufbeg)

\* C27: at the start of the scan of every input totalcc and totalnl are 0,
\* pending is 0, lastout is null, outleft is max_count and buflim is the base
\* of the buffer, so that no byte of the input before is in the window,
\* however the scan before ended; and the buffer is the one the process had,
\* not a new one: the step of grep () to its first fillbuf leaves the session
\* fresh and, when the buffer exists, leaves its block, its base and its size
\* alone, and the first fillbuf leaves the first bytes of the input in the
\* window
C27_FreshScan ==
    [][/\ pc' = "enter" =>
            /\ FreshScan'
            /\ g.pagesize # 0 =>
                  /\ g'.buffer = g.buffer /\ g'.asize = g.asize
                  /\ g'.bufalloc = g.bufalloc /\ g'.mem = g.mem
       /\ (pc = "enter" /\ pc' = "loop") => WindowOfInput']_vars

\* grep () is at the start of the scan of the second operand, the first
\* having made the buffer grow
C27_Witness ==
    /\ pc = "enter" /\ optind = 2
    /\ argv[1] = Op("g", 4)
    /\ g.bufalloc > InitialAlloc
    /\ g.bufsalloc < g.bufalloc
    /\ FreshScan

\* grep () is at the start of the scan of the second operand under -A 1; the
\* scan of the first ended at a failed read with its line of trailing
\* context pending
C27_WitnessPending ==
    /\ pc = "enter" /\ optind = 2
    /\ argv[1] = Op("r", 5) /\ opt.out_after = 1 /\ opt.max_count = OFF_T_MAX
    /\ Len(RecordsOf("line")) = 1
    /\ g.errseen = 1
    /\ FreshScan

\* the page size is set and bufsalloc is a multiple of it
SaveAligned == g.pagesize # 0 /\ g.bufsalloc % g.pagesize = 0

\* base <= bufbeg <= base + bufsalloc <= buflim <= base + bufalloc
WindowInBuffer ==
    /\ g.buffer <= g.bufbeg
    /\ g.bufbeg <= g.buffer + g.bufsalloc
    /\ g.buffer + g.bufsalloc <= g.buflim
    /\ g.buflim <= g.buffer + g.bufalloc

\* C28 as stated: after every reset and after every fillbuf that succeeds
\* bufsalloc is a multiple of the page size, save <= bufsalloc and
\* base <= bufbeg <= base + bufsalloc <= buflim <= base + bufalloc, and
\* bufalloc never decreases
C28_BufferBounds ==
    [][/\ pc' \in {"enter", "loop"} =>
            (SaveAligned' /\ g'.save <= g'.bufsalloc /\ WindowInBuffer')
       /\ g'.bufalloc >= g.bufalloc]_vars

\* C28: after every reset bufsalloc is a multiple of the page size and no
\* more than bufalloc, and buflim is the base of the buffer; after every
\* fillbuf that succeeds bufsalloc is a multiple of the page size,
\* save <= bufsalloc, bufbeg is base + bufsalloc - save and
\* base <= bufbeg <= base + bufsalloc <= buflim <= base + bufalloc; and
\* bufalloc never decreases
C28_BufferBoundsFilled ==
    [][/\ pc' = "enter" =>
            (SaveAligned' /\ g'.bufsalloc <= g'.bufalloc /\ g'.buflim = g'.buffer)
       /\ pc' = "loop" =>
            /\ SaveAligned' /\ g'.save <= g'.bufsalloc /\ WindowInBuffer'
            /\ g'.bufbeg = g'.buffer + g'.bufsalloc - g'.save
       /\ g'.bufalloc >= g.bufalloc]_vars

\* a fillbuf has grown the buffer and the save region, and saved bytes stand
\* before the bytes it read
C28_Witness ==
    /\ pc = "loop"
    /\ g.save > 0 /\ g.bufalloc > InitialAlloc
    /\ g.bufsalloc > ALIGN_TO(BUFSALLOC, PageSize)
    /\ g.buflim > g.buffer + g.bufsalloc

\* reset has run for the second operand, after an input for which the save
\* region had grown to the whole buffer: bufsalloc is a fifth of bufalloc
\* again and the window is empty, below base + bufsalloc
C28_WitnessReset ==
    /\ pc = "enter" /\ optind = 2 /\ argv[1] = Op("u", 3)
    /\ g.bufalloc = InitialAlloc
    /\ g.bufsalloc = ALIGN_TO(BUFSALLOC, PageSize)
    /\ g.buflim = g.buffer

\* C29: whenever grep () writes the end-of-line byte at buflim for a last
\* line that has none, the byte lies inside the block allocated for the
\* buffer, whatever the size of the file, however the buffer grew, and also
\* when the buffer is the one reset allocated
C29_TerminatorInside == ~g.overrun

\* the scan of an unended line of as many bytes as the buffer reset allocates
\* is over: the save region has grown to the whole buffer, which was not
\* allocated again, and the byte was written at base + bufalloc; the block
\* begins one byte before a page boundary and ends at base + bufalloc
TerminatorOutside ==
    /\ g.overrun
    /\ hist.calls[Len(hist.calls)].ino = 3
    /\ g.bufalloc = InitialAlloc /\ g.bufsalloc = g.bufalloc
    /\ g.buffer = PageSize - 1
    /\ g.asize = g.buffer + g.bufalloc
    /\ g.buflim = g.buffer + g.bufalloc + 1

\* grep () has the descriptor of the current operand
InScan == pc \in {"grep", "enter", "loop"}

\* C30: every descriptor opened for a named input is closed exactly once on
\* every path through grepfile and grep (), and the descriptor of a
\* directory is closed before its entries are visited, so that at most one
\* descriptor of an input is open at any time, at any depth of the walk: the
\* number of descriptors open is 1 while grep () is at work on a named input
\* and 0 when grepfile has returned, while grepdir is in its loop and when
\* main comes to its end
C30_DescriptorsClosed ==
    /\ g.nopen \in {0, 1}
    /\ InScan => g.nopen = (IF cur.file = <<>> THEN 0 ELSE 1)
    /\ pc \in {"start", "main", "dir"} => g.nopen = 0
    /\ (pc = "exit" /\ g.at # "exit") => g.nopen = 0

\* grep () is at work on a file two directories down: the descriptors of
\* the directories are closed, the one of the file is open
C30_Witness ==
    /\ pc = "loop" /\ Len(stack) = 2
    /\ Len(cur.file) = 3
    /\ g.nopen = 1

\* main is at its end after a binary file and a file whose read failed
C30_WitnessPaths ==
    /\ pc = "exit" /\ g.at # "exit"
    /\ argv = <<Op("n", 1), Op("r", 5)>>
    /\ g.errseen = 1
    /\ g.nopen = 0

\* the n bytes between bufbeg and buflim are the bytes of data from the
\* offset off on
WindowHolds(data, off, n) ==
    /\ off + n <= Len(data)
    /\ Bytes(g.mem, g.bufbeg, g.buflim) = SubSeq(data, off + 1, off + n)

\* the offset in its file at which the scan of the current input began
ScanFrom == hist.calls[Len(hist.calls)].from

\* C31: at every point of a scan the window from bufbeg to buflim holds
\* exactly the bytes of the input from the offset totalcc, counted from where
\* the scan began, to totalcc + (buflim - bufbeg): every fillbuf leaves the
\* bytes it was to save at the front, unchanged, and the next bytes of the
\* input right after them, none lost, doubled or out of order, also when it
\* allocates the buffer again
C31_WindowIsInput ==
    pc = "loop" =>
        WindowHolds(fs[cur.ino].data, ScanFrom + g.totalcc, g.buflim - g.bufbeg)

\* a fillbuf has allocated the buffer again, at another offset to the page
\* boundary, and the window holds saved bytes and bytes read after them
C31_Witness ==
    /\ pc = "loop"
    /\ g.bufalloc > InitialAlloc
    /\ g.save > 0 /\ g.buflim - g.bufbeg > g.save
    /\ g.asize > g.buffer + g.bufalloc
    /\ \E i \in g.bufbeg..(g.buflim - 1) : g.mem[i] = Eol

\* a fillbuf has left saved bytes at the front of a window that begins past
\* the start of the input
C31_WitnessLater ==
    /\ pc = "loop"
    /\ g.totalcc > 0 /\ g.save > 0 /\ g.buflim - g.bufbeg > g.save
=============================================================================
